---------------------------- MODULE Spec2Model ----------------------------
(***************************************************************************)
(* Model of the test-batch pipeline of services/identity-service/scripts:  *)
(*   run_test_batches.py      the batch executor                           *)
(*   create_batch_manifest.py the batch planner                            *)
(*   remove_test_bloat.py     the bloat remover                            *)
(*   parse_test_results_fixed.py, generate_report.py                       *)
(*                            the result parser and the report generator   *)
(*   test_cleanup_analysis.py the cleanup analyzer                         *)
(* Each script is one sequential process.  A script's variables are its    *)
(* locals and the files it reads and writes; its actions are the steps of  *)
(* its main function, cut at the points where the environment answers      *)
(* (the runner returns, times out or cannot be started; a copy or a write  *)
(* faults; the process is terminated).                                     *)
(***************************************************************************)
EXTENDS Integers, Sequences, FiniteSets, TLC

VARIABLES
    \* ---- run_test_batches.py ----
    batch_manifest, \* batches/batch_manifest.yaml, as load_batch_manifest reads it
    argv,         \* sys.argv[1], "" when absent
    batches,      \* main's list after the --fast / --sample filter
    idx,          \* the loop variable i of main (1-based)
    pc,           \* where the executor is
    inflight,     \* number of runner subprocesses currently running
    record,       \* the batch_result execute_batch is about to return
    results,      \* main's results list
    events,       \* history: one entry per runner invocation attempt
    batch_files,  \* artifacts/batch-<name>/batch_result.json files on disk
    overall,      \* results/batch_execution_results.json
    delays,       \* history: number of time.sleep(10) calls made
    build_dir,    \* build/test-results/test: the batch whose run wrote it, 0 if absent
    artifacts,    \* history: the xml-results copies made, [batch, from]
    \* ---- create_batch_manifest.py ----
    test_files,   \* the rows of batches/test_inventory.csv
    config_edit,  \* which rule table main runs with (see ConfigEdits)
    rule_idx,     \* position of main's loop in category_groups.items()
    manifest,     \* main's manifest list
    plan_pc,      \* where the planner is
    \* ---- remove_test_bloat.py ----
    tree,         \* the files below src/test and what they refer to
    test_dir,     \* whether src/test exists
    candidates_csv, \* whether reports/deletion_candidates.csv exists
    candidates,   \* the rows of reports/deletion_candidates.csv
    cand_idx,     \* position of remove_bloat_files' loop in candidates
    file_path,    \* the loop's file_path
    dependencies, \* the loop's dependencies
    backup_dir,   \* the backup copy create_backup made, NoBackup before
    removed_files,
    skipped_files,
    missing_files,
    rm_log,       \* history: backups, scans and removals, in order
    rm_pc,        \* where the remover is
    \* ---- parse_test_results_fixed.py, generate_report.py ----
    xml_dirs,     \* sorted(batch_dirs): the artifacts/batch-* directories
    dir_idx,      \* position of main's loop in xml_dirs
    file_idx,     \* position of analyze_batch_results' loop in xml_files
    test_results, \* batch_results['test_results'] of the batch being analysed
    all_results,  \* main's all_results, results/parsed_test_results.json once saved
    parse_pc,     \* where the parser and the report generator are
    report,       \* what the report generator rendered
    \* ---- test_cleanup_analysis.py ----
    inventory,    \* the rows of batches/test_inventory.csv the analyzer reads
    row_idx,      \* position of the grouping loop in inventory
    name_groups,  \* analyze_test_files' name_groups, keys in insertion order
    potential_duplicates,
    unit_vs_integration_duplicates,
    deletion_candidates, \* generate_specific_deletion_list's result
    clean_pc      \* where the cleanup analyzer is

execVars == <<batch_manifest, argv, batches, idx, pc, inflight, record, results,
              events, batch_files, overall, delays, build_dir, artifacts>>

planVars == <<test_files, config_edit, rule_idx, manifest, plan_pc>>

remVars == <<tree, test_dir, candidates_csv, candidates, cand_idx, file_path, dependencies,
             backup_dir, removed_files, skipped_files, missing_files, rm_log,
             rm_pc>>

parseVars == <<xml_dirs, dir_idx, file_idx, test_results, all_results, parse_pc,
               report>>

cleanVars == <<inventory, row_idx, name_groups, potential_duplicates,
               unit_vs_integration_duplicates, deletion_candidates, clean_pc>>

vars == <<execVars, planVars, remVars, parseVars, cleanVars>>

\* What a script leaves alone: the other scripts' variables.
notExec == <<planVars, remVars, parseVars, cleanVars>>
notPlan == <<execVars, remVars, parseVars, cleanVars>>
notRem == <<execVars, planVars, parseVars, cleanVars>>
notParse == <<execVars, planVars, remVars, cleanVars>>
notClean == <<execVars, planVars, remVars, parseVars>>

-----------------------------------------------------------------------------
(* Bounds of the model *)

MaxBatches == 3
MaxManifest == 4
MaxUnits == 3
MaxEditSize == 2
MaxCandidates == 2
MaxXmlFiles == 2
MaxCauses == 11
MaxRepeats == 3
MaxRows == 3

(* Program constants *)

SampleSize == 3
FastThresholdTenths == 50
MessageLimit == 150
GroupLimit == 100
TopCauses == 10

NoRecord == [batch_name |-> <<>>, batch_index |-> 0, exit_code |-> 0,
             success |-> FALSE, stderr |-> <<"none">>]
NoBackup == [made |-> FALSE, files |-> {}]
RemoveErrors == { "Permission denied" }
NoOverall == [written |-> FALSE, total_batches |-> 0, successful_batches |-> 0,
              failed_batches |-> 0, batch_results |-> <<>>]

-----------------------------------------------------------------------------
(* run_test_batches.py *)

\* Manifest entries the executor may be given.  A name is the sequence of
\* the '-'-separated parts of the batch name; estimated_runtime_minutes is
\* held in tenths of a minute.
BatchPool ==
    { [name |-> <<"unit", "fast">>, estimated_runtime_minutes |-> 75],
      [name |-> <<"config">>,       estimated_runtime_minutes |-> 15],
      [name |-> <<"service">>,      estimated_runtime_minutes |-> 50],
      [name |-> <<"integration", "long">>, estimated_runtime_minutes |-> 160] }

RECURSIVE SeqsUpTo(_, _)
SeqsUpTo(S, n) ==
    IF n = 0 THEN { <<>> }
    ELSE LET shorter == SeqsUpTo(S, n - 1)
         IN  shorter \cup { Append(s, x) : s \in shorter, x \in S }

DistinctNames(m) ==
    \A i, j \in 1..Len(m) : i # j => m[i].name # m[j].name

Manifests == { m \in SeqsUpTo(BatchPool, MaxManifest) : DistinctNames(m) }

Argvs == { "", "--fast", "--sample" }

\* Exit codes of the runner: 0 all tests passed, 1 some test failed.
ExitCodes == { 0, 1 }
\* str(e) of the exceptions execute_batch can catch.
FaultTexts == { "No such file or directory", "Permission denied" }
\* str(e) of a fault of the artifact copy or of the record write.
WriteFaultTexts == { "No space left on device" }

TimedOutMarker == <<"Test batch timed out after 30 minutes">>
ExecutionError(e) == <<"Execution error: ", e>>
\* The runner's own stderr, a function of its exit code here.
RunnerStderr(c) == IF c = 0 THEN <<>> ELSE <<"runner stderr">>

\* 'fast' in b['name']
NameHasFast(b) == \E k \in 1..Len(b.name) : b.name[k] = "fast"
\* a fast filter that also takes the batches at the threshold
IsFastBatch_Inclusive(b) ==
    NameHasFast(b) \/ b.estimated_runtime_minutes <= FastThresholdTenths
IsFastBatch(b) == NameHasFast(b) \/ b.estimated_runtime_minutes < FastThresholdTenths

\* main, lines 150-159: the narrowing modes
SelectBatches(m, a) ==
    IF a = "--fast" THEN SelectSeq(m, IsFastBatch)
    ELSE IF a = "--sample"
         THEN SubSeq(m, 1, IF Len(m) < SampleSize THEN Len(m) ELSE SampleSize)
         ELSE m

total_batches == Len(batches)

\* The runs of the model execute at most MaxBatches batches.
ExecInit ==
    /\ batch_manifest \in Manifests
    /\ argv \in Argvs
    /\ Len(SelectBatches(batch_manifest, argv)) <= MaxBatches
    /\ batches = <<>>
    /\ idx = 0
    /\ pc = "start"
    /\ inflight = 0
    /\ record = NoRecord
    /\ results = <<>>
    /\ events = <<>>
    /\ batch_files = {}
    /\ overall = NoOverall
    /\ delays = 0
    /\ build_dir = 0
    /\ artifacts = {}

\* History only: how the latest runner invocation ended.
Ended(ev, o, c, t) ==
    [ev EXCEPT ![Len(ev)] = [index |-> ev[Len(ev)].index, outcome |-> o,
                             code |-> c, text |-> t]]

\* main, lines 145-165: load the manifest, narrow it, enter the loop
LoadManifest ==
    /\ pc = "start"
    /\ batches' = SelectBatches(batch_manifest, argv)
    /\ idx' = 1
    /\ pc' = IF Len(SelectBatches(batch_manifest, argv)) >= 1 THEN "loop" ELSE "save_all"
    /\ UNCHANGED <<batch_manifest, argv, inflight, record, results, events,
                   batch_files, overall, delays, build_dir, artifacts>>
    /\ UNCHANGED notExec

\* Mutant of StartBatch: the runner is started without waiting for it
\* (Popen in place of run) and the loop goes on.
StartBatch_NoWait ==
    /\ pc = "loop"
    /\ inflight' = inflight + 1
    /\ events' = Append(events, [index |-> idx, outcome |-> "returned",
                                 code |-> 0, text |-> ""])
    /\ record' = [batch_name |-> batches[idx].name, batch_index |-> idx,
                  exit_code |-> 0, success |-> TRUE, stderr |-> <<>>]
    /\ pc' = "append"
    /\ UNCHANGED <<batch_manifest, argv, batches, idx, results,
                   batch_files, overall, delays, build_dir, artifacts>>
    /\ UNCHANGED notExec

\* execute_batch, lines 61-67: subprocess.run starts the runner and blocks
StartBatch ==
    /\ pc = "loop"
    /\ inflight' = inflight + 1
    /\ events' = Append(events, [index |-> idx, outcome |-> "running",
                                 code |-> 0, text |-> ""])
    /\ pc' = "running"
    /\ UNCHANGED <<batch_manifest, argv, batches, idx, record, results,
                   batch_files, overall, delays, build_dir, artifacts>>
    /\ UNCHANGED notExec

\* execute_batch, lines 69-82: the runner returned with exit code c.  A
\* run whose tests ran replaces the reports in build/test-results/test
\* (fresh); a run that failed before its test task started leaves the
\* directory as it found it.
RunnerReturns ==
    /\ pc = "running"
    /\ \E c \in ExitCodes, fresh \in BOOLEAN :
          /\ c = 0 => fresh
          /\ record' = [batch_name |-> batches[idx].name, batch_index |-> idx,
                        exit_code |-> c, success |-> (c = 0),
                        stderr |-> RunnerStderr(c)]
          /\ events' = Ended(events, "returned", c, "")
          /\ build_dir' = IF fresh THEN idx ELSE build_dir
    /\ inflight' = inflight - 1
    /\ pc' = "copy"
    /\ UNCHANGED <<batch_manifest, argv, batches, idx, results, batch_files,
                   overall, delays, artifacts>>
    /\ UNCHANGED notExec

\* execute_batch, lines 128-140: the generic handler's record
FaultRecord(e) ==
    [batch_name |-> batches[idx].name, batch_index |-> idx, exit_code |-> -2,
     success |-> FALSE, stderr |-> ExecutionError(e)]

\* execute_batch, lines 93-103: makedirs and the two copytree calls, which
\* copy whatever build/test-results/test holds when it exists; a fault in
\* them is caught by the generic handler of lines 128-140
CopyArtifacts ==
    /\ pc = "copy"
    /\ \/ /\ pc' = "save"
          /\ artifacts' = IF build_dir # 0
                          THEN artifacts \cup { [batch |-> idx, from |-> build_dir] }
                          ELSE artifacts
          /\ UNCHANGED record
       \/ \E e \in WriteFaultTexts :
             /\ record' = FaultRecord(e)
             /\ pc' = "append"
             /\ UNCHANGED artifacts
    /\ UNCHANGED <<batch_manifest, argv, batches, idx, inflight, results, events,
                   batch_files, overall, delays, build_dir>>
    /\ UNCHANGED notExec

\* execute_batch, lines 105-109: write batch_result.json and return; a fault
\* in the write is caught by the generic handler of lines 128-140
SaveBatchResult ==
    /\ pc = "save"
    /\ \/ /\ batch_files' =
                { f \in batch_files : f.batch_name # record.batch_name }
                  \cup { record }
          /\ UNCHANGED record
       \/ \E e \in WriteFaultTexts :
             /\ record' = FaultRecord(e)
             /\ UNCHANGED batch_files
    /\ pc' = "append"
    /\ UNCHANGED <<batch_manifest, argv, batches, idx, inflight, results, events,
                   overall, delays, build_dir, artifacts>>
    /\ UNCHANGED notExec

\* Mutant of RunnerTimesOut: no handler for TimeoutExpired, the generic
\* handler of lines 128-140 takes the timeout.
RunnerTimesOut_GenericHandler ==
    /\ pc = "running"
    /\ record' = [batch_name |-> batches[idx].name, batch_index |-> idx,
                  exit_code |-> -2, success |-> FALSE,
                  stderr |-> ExecutionError("timed out")]
    /\ events' = Ended(events, "timeout", -1, "")
    /\ inflight' = inflight - 1
    /\ pc' = "append"
    /\ UNCHANGED <<batch_manifest, argv, batches, idx, results, batch_files,
                   overall, delays, build_dir, artifacts>>
    /\ UNCHANGED notExec

\* execute_batch, lines 111-126: subprocess.run raised TimeoutExpired (it has
\* killed the runner by then)
RunnerTimesOut ==
    /\ pc = "running"
    /\ record' = [batch_name |-> batches[idx].name, batch_index |-> idx,
                  exit_code |-> -1, success |-> FALSE,
                  stderr |-> TimedOutMarker]
    /\ events' = Ended(events, "timeout", -1, "")
    /\ \E fresh \in BOOLEAN : build_dir' = IF fresh THEN idx ELSE build_dir
    /\ inflight' = inflight - 1
    /\ pc' = "append"
    /\ UNCHANGED <<batch_manifest, argv, batches, idx, results, batch_files,
                   overall, delays, artifacts>>
    /\ UNCHANGED notExec

\* Mutant of RunnerFault: no generic handler, the exception leaves
\* execute_batch and main.
RunnerFault_Uncaught ==
    /\ pc = "running"
    /\ \E e \in FaultTexts : events' = Ended(events, "fault", -2, e)
    /\ inflight' = inflight - 1
    /\ pc' = "crashed"
    /\ UNCHANGED <<batch_manifest, argv, batches, idx, record, results,
                   batch_files, overall, delays, build_dir, artifacts>>
    /\ UNCHANGED notExec

\* execute_batch, lines 128-140: subprocess.run raised another exception: the
\* runner could not be started
RunnerFault ==
    /\ pc = "running"
    /\ \E e \in FaultTexts :
          /\ record' = FaultRecord(e)
          /\ events' = Ended(events, "fault", -2, e)
    /\ inflight' = inflight - 1
    /\ pc' = "append"
    /\ UNCHANGED <<batch_manifest, argv, batches, idx, results, batch_files,
                   overall, delays, build_dir, artifacts>>
    /\ UNCHANGED notExec

\* Mutant of AppendResult: a failed batch is run again instead of recorded.
AppendResult_RetryFailed ==
    /\ pc = "append"
    /\ IF record.success
       THEN /\ results' = Append(results, record)
            /\ pc' = IF idx < total_batches THEN "sleep" ELSE "save_all"
       ELSE /\ results' = results
            /\ pc' = "loop"
    /\ record' = NoRecord
    /\ UNCHANGED <<batch_manifest, argv, batches, idx, inflight, events,
                   batch_files, overall, delays, build_dir, artifacts>>
    /\ UNCHANGED notExec

\* a loop that sleeps after every batch, the last one too
AppendResult_SleepsAfterLast ==
    /\ pc = "append"
    /\ results' = Append(results, record)
    /\ record' = NoRecord
    /\ IF idx < total_batches
       THEN pc' = "sleep" /\ delays' = delays
       ELSE pc' = "save_all" /\ delays' = delays + 1
    /\ UNCHANGED <<batch_manifest, argv, batches, idx, inflight, events,
                   batch_files, overall, build_dir, artifacts>>
    /\ UNCHANGED notExec

\* main, lines 166-170: results.append(batch_result), then the test i < total
AppendResult ==
    /\ pc = "append"
    /\ results' = Append(results, record)
    /\ record' = NoRecord
    /\ pc' = IF idx < total_batches THEN "sleep" ELSE "save_all"
    /\ UNCHANGED <<batch_manifest, argv, batches, idx, inflight, events,
                   batch_files, overall, delays, build_dir, artifacts>>
    /\ UNCHANGED notExec

\* main, lines 170-172 and the loop's next iteration
Cooldown ==
    /\ pc = "sleep"
    /\ delays' = delays + 1
    /\ idx' = idx + 1
    /\ pc' = "loop"
    /\ UNCHANGED <<batch_manifest, argv, batches, inflight, record, results, events,
                   batch_files, overall, build_dir, artifacts>>
    /\ UNCHANGED notExec

\* main, lines 174-186: write results/batch_execution_results.json
SaveOverall ==
    /\ pc = "save_all"
    /\ overall' = [written |-> TRUE, total_batches |-> Len(results),
                   successful_batches |->
                       Cardinality({ k \in 1..Len(results) : results[k].success }),
                   failed_batches |->
                       Cardinality({ k \in 1..Len(results) : ~results[k].success }),
                   batch_results |-> results]
    /\ pc' = "done"
    /\ UNCHANGED <<batch_manifest, argv, batches, idx, inflight, record, results,
                   events, batch_files, delays, build_dir, artifacts>>
    /\ UNCHANGED notExec

\* The operating system terminates the executor process at any point
\* of a run; the files written so far stay.
Kill ==
    /\ pc \notin { "done", "killed", "crashed" }
    /\ pc' = "killed"
    /\ UNCHANGED <<batch_manifest, argv, batches, idx, inflight, record, results,
                   events, batch_files, overall, delays, build_dir, artifacts>>
    /\ UNCHANGED notExec

ExecStep ==
    \/ LoadManifest
    \/ StartBatch
    \/ RunnerReturns
    \/ CopyArtifacts
    \/ SaveBatchResult
    \/ RunnerTimesOut
    \/ RunnerFault
    \/ AppendResult
    \/ Cooldown
    \/ SaveOverall

ExecNext == ExecStep \/ Kill

-----------------------------------------------------------------------------
(* inventory_tests.py: the classification that fills test_inventory.csv *)

\* A test file, as far as the classification reads it: the directory below
\* com/focushive/identity ("" when the package is less than 4 deep) and
\* which of the words the file name holds ('Test' is in every inventoried
\* name, line 56).
\* categorize_test, lines 8-29
categorize_test(f) == IF f.dir = "" THEN "other" ELSE f.dir

\* estimate_runtime, lines 31-44
estimate_runtime(f) ==
    IF categorize_test(f) = "integration" \/ f.has_Integration THEN "long"
    ELSE IF categorize_test(f) = "performance" \/ f.has_Performance
              \/ f.has_Load
         THEN "very-long"
    ELSE IF f.has_Unit \/ categorize_test(f) \in { "dto", "entity", "util" }
         THEN "short"
    ELSE "medium"

\* Directories of the model's test files, in the sort order of line 78.
DirPool == << "dto", "service" >>

FilePool ==
    { [dir |-> DirPool[d], has_Integration |-> i, has_Performance |-> p,
       has_Load |-> FALSE, has_Unit |-> u] :
        d \in 1..Len(DirPool), i \in BOOLEAN, p \in BOOLEAN, u \in BOOLEAN }

DirRank(c) == CHOOSE d \in 1..Len(DirPool) : DirPool[d] = c

\* The (category, runtime_estimate) pairs main can write for FilePool.
UnitKinds ==
    { [category |-> categorize_test(f), runtime_estimate |-> estimate_runtime(f)] :
        f \in FilePool }

\* Inventories: rows sorted by category (line 78); a row's class is its
\* position, so the rows of one inventory are distinct.
SortedByCategory(s) ==
    \A i \in 1..(Len(s) - 1) : DirRank(s[i].category) <= DirRank(s[i + 1].category)

Inventories ==
    { [i \in 1..Len(s) |-> [class_name |-> i, category |-> s[i].category,
                            runtime_estimate |-> s[i].runtime_estimate]] :
        s \in { t \in SeqsUpTo(UnitKinds, MaxUnits) : SortedByCategory(t) } }

-----------------------------------------------------------------------------
(* create_batch_manifest.py *)

\* Mutant of Rule: the rule for long service tests also takes the medium
\* ones, which the service rule takes already.
Rule_LongTakesMedium(n, cats, rts, m) ==
    [name |-> n, categories |-> cats,
     runtime_filters |-> IF n = <<"service", "long">> THEN rts \cup { "medium" }
                         ELSE rts,
     max_size |-> m]

Rule(n, cats, rts, m) ==
    [name |-> n, categories |-> cats, runtime_filters |-> rts, max_size |-> m]

\* main, lines 19-133, in declaration order
category_groups ==
    << Rule(<<"unit", "fast">>, { "dto", "entity", "util", "validation" },
            { "short" }, 25),
       Rule(<<"unit", "medium">>, { "dto", "entity", "util", "validation" },
            { "medium" }, 20),
       Rule(<<"service">>, { "service" }, { "short", "medium" }, 15),
       Rule(<<"service", "long">>, { "service" }, { "long" }, 10),
       Rule(<<"controllers">>, { "controller" }, { "short", "medium" }, 15),
       Rule(<<"security", "unit">>, { "security" }, { "short", "medium" }, 12),
       Rule(<<"security", "integration">>, { "security" },
            { "long", "very-long" }, 8),
       Rule(<<"config">>, { "config" }, { "short", "medium" }, 20),
       Rule(<<"config", "integration">>, { "config" }, { "long" }, 10),
       Rule(<<"integration", "medium">>, { "integration" }, { "medium" }, 10),
       Rule(<<"integration", "long">>, { "integration" }, { "long" }, 8),
       Rule(<<"integration", "very", "long">>, { "integration" },
            { "very-long" }, 5),
       Rule(<<"performance">>, { "performance" }, { "medium", "long" }, 8),
       Rule(<<"performance", "long">>, { "performance" }, { "very-long" }, 4),
       Rule(<<"infrastructure">>,
            { "repository", "cache", "monitoring", "network", "interceptor" },
            { "short", "medium", "long" }, 15),
       Rule(<<"compliance", "resilience">>,
            { "compliance", "resilience", "concurrency", "integrity" },
            { "short", "medium", "long" }, 12),
       Rule(<<"misc">>, { "other", "diagnosis", "exception", "startup", "unit" },
            { "short", "medium", "long" }, 15) >>

RuntimeBuckets == { "short", "medium", "long", "very-long" }

\* The rule tables of the model: the table of the source, and the table
\* with one rule edited, either its max_size replaced by a size of
\* EditSizes or one runtime bucket added to its runtime_filters.  The
\* edited rule is one that accepts a category of the model's inventories
\* (an edit of another rule changes nothing the planner does with them).
EditSizes == (0 - 1)..MaxEditSize

EditableRules ==
    { r \in 1..Len(category_groups) :
        category_groups[r].categories \cap { DirPool[d] : d \in 1..Len(DirPool) } # {} }

ConfigEdits ==
    { [rule |-> 0, field |-> "none", size |-> 0, bucket |-> ""] }
      \cup { [rule |-> r, field |-> "max_size", size |-> m, bucket |-> ""] :
               r \in EditableRules, m \in EditSizes }
      \cup UNION { { [rule |-> r, field |-> "runtime_filters", size |-> 0,
                       bucket |-> b] :
                        b \in RuntimeBuckets \ category_groups[r].runtime_filters } :
                    r \in EditableRules }

\* The config of line 138 for the r-th rule: the rule of the table main runs with.
ConfigOf(r) ==
    IF config_edit.rule # r THEN category_groups[r]
    ELSE IF config_edit.field = "max_size"
         THEN [category_groups[r] EXCEPT !.max_size = config_edit.size]
         ELSE [category_groups[r] EXCEPT
                 !.runtime_filters = @ \cup { config_edit.bucket }]

\* Mutant of Matches: the runtime filter is not applied.
Matches_CategoryOnly(test, config) == test.category \in config.categories

\* lines 142-143
Matches(test, config) ==
    /\ test.category \in config.categories
    /\ test.runtime_estimate \in config.runtime_filters

\* lines 140-144
candidate_tests(config) ==
    LET Hit(test) == Matches(test, config) IN SelectSeq(test_files, Hit)

Min(a, b) == IF a <= b THEN a ELSE b

\* Mutant of RangeStarts: the last, shorter chunk is lost.
RangeStarts_Floor(K, M) ==
    IF M < 0 THEN <<>> ELSE [k \in 1..(K \div M) |-> (k - 1) * M]

\* range(0, K, M) of line 151 for M # 0: the start offsets, in order
RangeStarts(K, M) ==
    IF M < 0 THEN <<>>
    ELSE [k \in 1..((K + M - 1) \div M) |-> (k - 1) * M]

\* Mutant of sub_batches: the chunks are taken from the end of the list.
sub_batches_LastFirst(c, M) ==
    LET starts == RangeStarts(Len(c), M)
        n == Len(starts)
    IN  [k \in 1..n |->
            SubSeq(c, starts[n + 1 - k] + 1, Min(starts[n + 1 - k] + M, Len(c)))]

\* line 151: [candidate_tests[i:i + max_size] for i in range(...)]
sub_batches(c, M) ==
    LET starts == RangeStarts(Len(c), M)
    IN  [k \in 1..Len(starts) |->
            SubSeq(c, starts[k] + 1, Min(starts[k] + M, Len(c)))]

\* Mutant of actual_batch_name: every chunk is named after the rule alone.
actual_batch_name_NoIndex(batch_name, n, i) == batch_name

\* line 154: f"{batch_name}" or f"{batch_name}-{i+1}"
actual_batch_name(batch_name, n, i) ==
    IF n = 1 THEN batch_name ELSE Append(batch_name, ToString(i + 1))

\* a table that gives every bucket the default of 0.5
runtime_minutes_AllDefault(rt) == 5

\* lines 197-202, in tenths of a minute; .get's default is 0.5
runtime_minutes(rt) ==
    CASE rt = "short" -> 1
      [] rt = "medium" -> 5
      [] rt = "long" -> 20
      [] rt = "very-long" -> 50
      [] OTHER -> 5

RECURSIVE SumSeq(_)
SumSeq(s) == IF s = <<>> THEN 0 ELSE Head(s) + SumSeq(Tail(s))

\* estimate_batch_runtime, lines 195-205: the sum is a whole number of
\* tenths, which round(total, 1) gives back
estimate_batch_runtime(tests) ==
    SumSeq([k \in 1..Len(tests) |-> runtime_minutes(tests[k].runtime_estimate)])

\* lines 156-176; rule_index is history only (the rule the entry came from)
manifest_entry(r, sb, n, i) ==
    [name |-> actual_batch_name(ConfigOf(r).name, n, i),
     rule_index |-> r,
     categories |-> ConfigOf(r).categories,
     runtime_filters |-> ConfigOf(r).runtime_filters,
     test_count |-> Len(sb),
     estimated_runtime_minutes |-> estimate_batch_runtime(sb),
     class_patterns |-> [k \in 1..Len(sb) |-> sb[k].class_name]]

\* lines 153-179 for one rule
RuleEntries(r) ==
    LET sbs == sub_batches(candidate_tests(ConfigOf(r)), ConfigOf(r).max_size)
    IN  [k \in 1..Len(sbs) |-> manifest_entry(r, sbs[k], Len(sbs), k - 1)]

PlanInit ==
    /\ test_files \in Inventories
    /\ config_edit \in ConfigEdits
    /\ rule_idx = 1
    /\ manifest = <<>>
    /\ plan_pc = "rules"

\* main, lines 138-147: a rule that matches no test is skipped
SkipRule ==
    /\ plan_pc = "rules"
    /\ rule_idx <= Len(category_groups)
    /\ candidate_tests(ConfigOf(rule_idx)) = <<>>
    /\ rule_idx' = rule_idx + 1
    /\ UNCHANGED <<test_files, config_edit, manifest, plan_pc>>
    /\ UNCHANGED notPlan

\* main, lines 149-179: split the rule's matches and append the entries
PlanRule ==
    /\ plan_pc = "rules"
    /\ rule_idx <= Len(category_groups)
    /\ candidate_tests(ConfigOf(rule_idx)) # <<>>
    /\ ConfigOf(rule_idx).max_size # 0
    /\ manifest' = manifest \o RuleEntries(rule_idx)
    /\ rule_idx' = rule_idx + 1
    /\ UNCHANGED <<test_files, config_edit, plan_pc>>
    /\ UNCHANGED notPlan

\* main, line 151 with max_size = 0: range() raises ValueError, which
\* nothing catches; no manifest is written
PlanRaises ==
    /\ plan_pc = "rules"
    /\ rule_idx <= Len(category_groups)
    /\ candidate_tests(ConfigOf(rule_idx)) # <<>>
    /\ ConfigOf(rule_idx).max_size = 0
    /\ plan_pc' = "crashed"
    /\ UNCHANGED <<test_files, config_edit, rule_idx, manifest>>
    /\ UNCHANGED notPlan

\* main, lines 181-183: write batches/batch_manifest.yaml
WriteManifest ==
    /\ plan_pc = "rules"
    /\ rule_idx > Len(category_groups)
    /\ plan_pc' = "written"
    /\ UNCHANGED <<test_files, config_edit, rule_idx, manifest>>
    /\ UNCHANGED notPlan

PlanNext == SkipRule \/ PlanRule \/ PlanRaises \/ WriteManifest

-----------------------------------------------------------------------------
(* remove_test_bloat.py *)

\* Classes of the model's test tree; each has at most one file
\* <class>.java below src/test.  <<x, y>> \in refs: the file of x holds the
\* name of class y on some line.  resource_refs: the classes named in the
\* one file of the tree that is not a .java file (a resource), at most
\* one class here.
ClassPool == { "OAuth2TestConfig", "MinimalTestConfig", "UserControllerTest" }

Trees ==
    UNION { { [present |-> P, refs |-> R, resource_refs |-> Q] :
                R \in SUBSET { <<x, y>> \in P \X P : x # y },
                Q \in { {} } \cup { { c } : c \in P } } :
            P \in SUBSET ClassPool }

EmptyTree == [present |-> {}, refs |-> {}, resource_refs |-> {}]

CandidateLists == SeqsUpTo(ClassPool, MaxCandidates)

NoPath == "None"

\* find_file_path, lines 25-51: the path of the class's file, or None
find_file_path(class_name) ==
    IF class_name \in tree.present THEN class_name ELSE NoPath

\* line 63: the files grep -r <class> src/test/ --include=*.java names
grep_files(path) == { x \in tree.present : x = path \/ <<x, path>> \in tree.refs }

\* History only: the files of the tree, other than the class's own, that
\* hold the class's name.
ReferencedBy(path) ==
    { x \in tree.present : x # path /\ <<x, path>> \in tree.refs }
      \cup (IF path \in tree.resource_refs THEN { "src/test/resources" } ELSE {})

\* check_dependencies, lines 53-77, grep having ended with status rc
\* (0: lines matched, 2: grep failed; a grep that cannot be started raises,
\* and line 74 leaves the list empty as status 2 does)
check_dependencies(path, rc) ==
    IF path = NoPath \/ path \notin tree.present THEN {}
    ELSE IF rc = 0 THEN { x \in grep_files(path) : x # path }
    ELSE {}

\* The statuses grep can end with; the class's own file always matches, so
\* status 1 (no line matched) does not occur for a file that is present.
GrepStatuses == { 0, 2 }

RemInit ==
    /\ tree \in Trees
    /\ test_dir \in BOOLEAN
    /\ (~test_dir => tree = EmptyTree)
    /\ candidates_csv \in BOOLEAN
    /\ candidates \in CandidateLists
    /\ (~candidates_csv => candidates = <<>>)
    /\ cand_idx = 0
    /\ file_path = NoPath
    /\ dependencies = {}
    /\ backup_dir = NoBackup
    /\ removed_files = <<>>
    /\ skipped_files = <<>>
    /\ missing_files = <<>>
    /\ rm_log = <<>>
    /\ rm_pc = "start"

\* remove_bloat_files, lines 82-84: without the candidates file the stage
\* returns at once
NoCandidatesStop ==
    /\ rm_pc = "start"
    /\ ~candidates_csv
    /\ rm_pc' = "stopped"
    /\ UNCHANGED <<tree, test_dir, candidates_csv, candidates, cand_idx, file_path,
                   dependencies, backup_dir, removed_files, skipped_files,
                   missing_files, rm_log>>
    /\ UNCHANGED notRem

\* create_backup, lines 10-20, and remove_bloat_files, lines 86-97: the
\* tree is copied and the candidates are loaded
CreateBackup ==
    /\ rm_pc = "start"
    /\ candidates_csv
    /\ test_dir
    /\ backup_dir' = [made |-> TRUE, files |-> tree.present]
    /\ rm_log' = Append(rm_log, [op |-> "backup", class |-> "",
                                 referenced_by |-> {}])
    /\ cand_idx' = 1
    /\ rm_pc' = IF Len(candidates) >= 1 THEN "find" ELSE "report"
    /\ UNCHANGED <<tree, test_dir, candidates_csv, candidates, file_path, dependencies,
                   removed_files, skipped_files, missing_files>>
    /\ UNCHANGED notRem

\* Mutant of BackupRaises: the failed copy is caught and the loop runs.
BackupRaises_Swallowed ==
    /\ rm_pc = "start"
    /\ candidates_csv
    /\ test_dir
    /\ cand_idx' = 1
    /\ rm_pc' = IF Len(candidates) >= 1 THEN "find" ELSE "report"
    /\ UNCHANGED <<tree, test_dir, candidates_csv, candidates, file_path, dependencies,
                   backup_dir, removed_files, skipped_files, missing_files,
                   rm_log>>
    /\ UNCHANGED notRem

\* create_backup, line 18: shutil.copytree raises (a file cannot be read,
\* the disk is full); nothing catches it
BackupRaises ==
    /\ rm_pc = "start"
    /\ candidates_csv
    /\ test_dir
    /\ rm_pc' = "crashed"
    /\ UNCHANGED <<tree, test_dir, candidates_csv, candidates, cand_idx, file_path,
                   dependencies, backup_dir, removed_files, skipped_files,
                   missing_files, rm_log>>
    /\ UNCHANGED notRem

\* create_backup, lines 21-23, and remove_bloat_files, lines 88-90
NoBackupStop ==
    /\ rm_pc = "start"
    /\ candidates_csv
    /\ ~test_dir
    /\ rm_pc' = "stopped"
    /\ UNCHANGED <<tree, test_dir, candidates_csv, candidates, cand_idx, file_path,
                   dependencies, backup_dir, removed_files, skipped_files,
                   missing_files, rm_log>>
    /\ UNCHANGED notRem

\* The loop's step to the next candidate.
NextCandidate(i) == IF i < Len(candidates) THEN "find" ELSE "report"

\* remove_bloat_files, lines 103-118
FindFile ==
    /\ rm_pc = "find"
    /\ LET p == find_file_path(candidates[cand_idx])
       IN  IF p = NoPath
           THEN /\ missing_files' = Append(missing_files, candidates[cand_idx])
                /\ cand_idx' = cand_idx + 1
                /\ rm_pc' = NextCandidate(cand_idx)
                /\ UNCHANGED file_path
           ELSE /\ file_path' = p
                /\ rm_pc' = "scan"
                /\ UNCHANGED <<missing_files, cand_idx>>
    /\ UNCHANGED <<tree, test_dir, candidates_csv, candidates, dependencies, backup_dir,
                   removed_files, skipped_files, rm_log>>
    /\ UNCHANGED notRem

\* remove_bloat_files, line 121: check_dependencies returns
ScanDependencies ==
    /\ rm_pc = "scan"
    /\ \E rc \in GrepStatuses :
          /\ dependencies' = check_dependencies(file_path, rc)
          /\ rm_log' = Append(rm_log, [op |-> IF rc = 0 THEN "scan" ELSE "scan failed",
                                       class |-> file_path,
                                       referenced_by |-> ReferencedBy(file_path)])
    /\ rm_pc' = "decide"
    /\ UNCHANGED <<tree, test_dir, candidates_csv, candidates, cand_idx, file_path, backup_dir,
                   removed_files, skipped_files, missing_files>>
    /\ UNCHANGED notRem

\* remove_bloat_files, lines 123-135
SkipDependents ==
    /\ rm_pc = "decide"
    /\ dependencies # {}
    /\ skipped_files' = Append(skipped_files,
                               [file |-> candidates[cand_idx], path |-> file_path,
                                dependencies |-> Cardinality(dependencies),
                                error |-> ""])
    /\ cand_idx' = cand_idx + 1
    /\ rm_pc' = NextCandidate(cand_idx)
    /\ UNCHANGED <<tree, test_dir, candidates_csv, candidates, file_path, dependencies,
                   backup_dir, removed_files, missing_files, rm_log>>
    /\ UNCHANGED notRem

\* remove_bloat_files, lines 137-147: os.remove
RemoveFile ==
    /\ rm_pc = "decide"
    /\ dependencies = {}
    /\ tree' = [tree EXCEPT !.present = @ \ { file_path }]
    /\ removed_files' = Append(removed_files,
                               [file |-> candidates[cand_idx], path |-> file_path])
    /\ rm_log' = Append(rm_log, [op |-> "remove", class |-> file_path,
                                 referenced_by |-> ReferencedBy(file_path)])
    /\ cand_idx' = cand_idx + 1
    /\ rm_pc' = NextCandidate(cand_idx)
    /\ UNCHANGED <<test_dir, candidates_csv, candidates, file_path, dependencies, backup_dir,
                   skipped_files, missing_files>>
    /\ UNCHANGED notRem

\* a handler of the removal error that records nothing
RemoveRaises_NotRecorded ==
    /\ rm_pc = "decide"
    /\ dependencies = {}
    /\ cand_idx' = cand_idx + 1
    /\ rm_pc' = NextCandidate(cand_idx)
    /\ UNCHANGED <<tree, test_dir, candidates_csv, candidates, file_path, dependencies,
                   backup_dir, removed_files, skipped_files, missing_files, rm_log>>
    /\ UNCHANGED notRem

\* remove_bloat_files, lines 149-156: os.remove raises
RemoveRaises ==
    /\ rm_pc = "decide"
    /\ dependencies = {}
    /\ \E e \in RemoveErrors :
          skipped_files' = Append(skipped_files,
                                  [file |-> candidates[cand_idx], path |-> file_path,
                                   dependencies |-> 0, error |-> e])
    /\ cand_idx' = cand_idx + 1
    /\ rm_pc' = NextCandidate(cand_idx)
    /\ UNCHANGED <<tree, test_dir, candidates_csv, candidates, file_path, dependencies,
                   backup_dir, removed_files, missing_files, rm_log>>
    /\ UNCHANGED notRem

\* remove_bloat_files, lines 158-159: generate_removal_report
WriteReport ==
    /\ rm_pc = "report"
    /\ rm_pc' = "done"
    /\ UNCHANGED <<tree, test_dir, candidates_csv, candidates, cand_idx, file_path,
                   dependencies, backup_dir, removed_files, skipped_files,
                   missing_files, rm_log>>
    /\ UNCHANGED notRem

RemNext ==
    \/ NoCandidatesStop
    \/ CreateBackup
    \/ BackupRaises
    \/ NoBackupStop
    \/ FindFile
    \/ ScanDependencies
    \/ SkipDependents
    \/ RemoveFile
    \/ RemoveRaises
    \/ WriteReport

-----------------------------------------------------------------------------
(* parse_test_results_fixed.py and generate_report.py *)

\* A text is the sequence of its characters, each a one-letter string.
\* Python's None is the text None below, which no real text equals.
None == << "None" >>
NoMessage == << "N", "o", " ", "m", "e", "s", "s", "a", "g", "e" >>
NoStacktrace == << "N", "o", " ", "s", "t", "a", "c", "k", "t", "r", "a", "c", "e" >>
SkippedText == << "S", "k", "i", "p", "p", "e", "d" >>
UnknownError == << "U", "n", "k", "n", "o", "w", "n", " ", "e", "r", "r", "o", "r" >>
ErrorDetailsUnavailable ==
    << "E", "r", "r", "o", "r", " ", "d", "e", "t", "a", "i", "l", "s", " ", "u", "n", "a", "v", "a", "i", "l", "a", "b", "l", "e" >>
Ellipsis == << ".", ".", "." >>
AtPrefix == << "a", "t", " " >>

Chars(n, c) == [i \in 1..n |-> c]
\* s[:n]
Take(s, n) == SubSeq(s, 1, Min(n, Len(s)))
StartsWith(s, p) == Len(s) >= Len(p) /\ SubSeq(s, 1, Len(p)) = p

\* str.strip() of a text
RECURSIVE lstrip(_)
lstrip(s) == IF s # <<>> /\ Head(s) = " " THEN lstrip(Tail(s)) ELSE s
RECURSIVE rstrip(_)
rstrip(s) ==
    IF s # <<>> /\ s[Len(s)] = " " THEN rstrip(SubSeq(s, 1, Len(s) - 1)) ELSE s
strip(s) == rstrip(lstrip(s))

\* str.replace(old, ''): drops the occurrences of old, scanning left to right
RECURSIVE replace(_, _)
replace(s, old) ==
    IF s = <<>> THEN <<>>
    ELSE IF StartsWith(s, old) THEN replace(SubSeq(s, Len(old) + 1, Len(s)), old)
    ELSE <<Head(s)>> \o replace(Tail(s), old)

RECURSIVE Flatten(_)
Flatten(ss) == IF ss = <<>> THEN <<>> ELSE Head(ss) \o Flatten(Tail(ss))

\* A <failure>, <error> or <skipped> child of a <testcase>: its message and
\* type attributes (None when the attribute is absent) and its text, held
\* as the sequence of its lines (None when the element has no text).
NoElem == [present |-> FALSE, message |-> None, type |-> "None", text |-> <<None>>]
Elem(m, t, x) == [present |-> TRUE, message |-> m, type |-> t, text |-> x]

TestCase(n, f, e, s, ok) ==
    [name |-> n, time_ok |-> ok, failure |-> f, error |-> e, skipped |-> s]

\* parse_junit_xml, lines 46-62, with skipped tested first
status_of_SkippedFirst(testcase) ==
    IF testcase.skipped.present THEN "skipped"
    ELSE IF testcase.failure.present THEN "failed"
    ELSE IF testcase.error.present THEN "error"
    ELSE "passed"

\* parse_junit_xml, lines 46-62: the if / elif chain
status_of(testcase) ==
    IF testcase.failure.present THEN "failed"
    ELSE IF testcase.error.present THEN "error"
    ELSE IF testcase.skipped.present THEN "skipped"
    ELSE "passed"

\* parse_junit_xml, lines 36-77: one <testcase> to one test result.  The
\* field source is history: the file, suite and case the result came from.
test_result(testcase, src) ==
    LET failure == testcase.failure
        error == testcase.error
        skipped == testcase.skipped
        status == status_of(testcase)
        marker == IF status = "failed" THEN failure ELSE error
    IN  IF status \in { "failed", "error" }
        THEN [full_name |-> testcase.name,
              status |-> status,
              failure_message |->
                  IF marker.message = None THEN NoMessage ELSE marker.message,
              failure_type |->
                  IF marker.type = "None" THEN "Unknown" ELSE marker.type,
              failure_stacktrace |->
                  IF marker.text = <<None>> \/ marker.text = << <<>> >>
                  THEN <<NoStacktrace>> ELSE marker.text,
              source |-> src]
        ELSE IF status = "skipped"
        THEN [full_name |-> testcase.name,
              status |-> status,
              failure_message |->
                  IF skipped.message = None THEN SkippedText ELSE skipped.message,
              failure_type |-> "None",
              failure_stacktrace |-> <<None>>,
              source |-> src]
        ELSE [full_name |-> testcase.name,
              status |-> status,
              failure_message |-> None,
              failure_type |-> "None",
              failure_stacktrace |-> <<None>>,
              source |-> src]

\* What parse_junit_xml returns: None, or the list of results.
ParsedNone == [none |-> TRUE, results |-> <<>>]
Parsed(rs) == [none |-> FALSE, results |-> rs]

\* float(testcase.get('time')) raises ValueError on a non-numeric attribute
NumericOk(xml_file) ==
    \A s \in 1..Len(xml_file.suites) :
        \A c \in 1..Len(xml_file.suites[s]) : xml_file.suites[s][c].time_ok

\* parse_junit_xml, lines 10-86; f is the file's position in its directory
parse_junit_xml(xml_file, f) ==
    IF ~xml_file.well_formed THEN ParsedNone
    ELSE IF xml_file.root \notin { "testsuite", "testsuites" } THEN ParsedNone
    ELSE IF ~NumericOk(xml_file) THEN ParsedNone
    ELSE Parsed(Flatten([s \in 1..Len(xml_file.suites) |->
                  [c \in 1..Len(xml_file.suites[s]) |->
                      test_result(xml_file.suites[s][c], <<f, s, c>>)]]))

\* extract_root_cause, lines 88-113
MeaningfulLines(lines) ==
    SelectSeq([k \in 1..Len(lines) |-> strip(lines[k])],
              LAMBDA l : l # <<>> /\ ~StartsWith(l, AtPrefix)
                                  /\ ~StartsWith(l, Ellipsis))

Truncated(s) == IF Len(s) > MessageLimit THEN Take(s, MessageLimit) \o Ellipsis ELSE s

extract_root_cause(failure_message, failure_stacktrace) ==
    LET has_message == failure_message # None /\ failure_message # <<>>
        has_trace == failure_stacktrace # <<None>> /\ failure_stacktrace # << <<>> >>
    IN  IF ~has_message /\ ~has_trace THEN UnknownError
        ELSE IF has_message THEN Truncated(strip(failure_message))
        ELSE IF MeaningfulLines(failure_stacktrace) # <<>>
             THEN Truncated(Head(MeaningfulLines(failure_stacktrace)))
             ELSE ErrorDetailsUnavailable

CountStatus(rs, st) == Cardinality({ k \in 1..Len(rs) : rs[k].status = st })

failure_entry(test) ==
    [test_name |-> test.full_name,
     root_cause |-> extract_root_cause(test.failure_message, test.failure_stacktrace),
     failure_type |-> test.failure_type]

\* Mutant of analyze: an errored test is counted as failed as well.
analyze_ErrorAlsoFailed(batch_name, rs) ==
    LET failing == SelectSeq(rs, LAMBDA t : t.status \in { "failed", "error" })
    IN  [batch_name |-> batch_name,
         total_tests |-> Len(rs),
         passed_tests |-> CountStatus(rs, "passed"),
         failed_tests |-> CountStatus(rs, "failed") + CountStatus(rs, "error"),
         error_tests |-> CountStatus(rs, "error"),
         skipped_tests |-> CountStatus(rs, "skipped"),
         test_results |-> rs,
         failure_summary |-> [k \in 1..Len(failing) |-> failure_entry(failing[k])]]

\* analyze_batch_results, lines 121-132 and 147-187
analyze(batch_name, rs) ==
    LET failing == SelectSeq(rs, LAMBDA t : t.status \in { "failed", "error" })
    IN  [batch_name |-> batch_name,
         total_tests |-> Len(rs),
         passed_tests |-> CountStatus(rs, "passed"),
         failed_tests |-> CountStatus(rs, "failed"),
         error_tests |-> CountStatus(rs, "error"),
         skipped_tests |-> CountStatus(rs, "skipped"),
         test_results |-> rs,
         failure_summary |-> [k \in 1..Len(failing) |-> failure_entry(failing[k])]]

\* main, lines 245-249: the keys of failure_causes in insertion order
RECURSIVE FirstSeen(_, _)
FirstSeen(s, seen) ==
    IF s = <<>> THEN <<>>
    ELSE IF Head(s) \in seen THEN FirstSeen(Tail(s), seen)
    ELSE <<Head(s)>> \o FirstSeen(Tail(s), seen \cup { Head(s) })

CountOf(s, x) == Cardinality({ k \in 1..Len(s) : s[k] = x })

\* an insertion that puts a cause before the causes of equal count
RECURSIVE InsertByCount_Unstable(_, _)
InsertByCount_Unstable(sorted, x) ==
    IF sorted = <<>> THEN <<x>>
    ELSE IF Head(sorted).count > x.count
         THEN <<Head(sorted)>> \o InsertByCount_Unstable(Tail(sorted), x)
         ELSE <<x>> \o sorted

\* sorted(..., key=count, reverse=True): stable, equal counts keep their order
RECURSIVE InsertByCount(_, _)
InsertByCount(sorted, x) ==
    IF sorted = <<>> THEN <<x>>
    ELSE IF Head(sorted).count >= x.count
         THEN <<Head(sorted)>> \o InsertByCount(Tail(sorted), x)
         ELSE <<x>> \o sorted

RECURSIVE SortedByCount(_)
SortedByCount(s) ==
    IF s = <<>> THEN <<>>
    ELSE InsertByCount(SortedByCount(SubSeq(s, 1, Len(s) - 1)), s[Len(s)])

\* main, lines 244-255
top_failure_causes(batch_results) ==
    LET failures == Flatten([b \in 1..Len(batch_results) |->
                                batch_results[b].failure_summary])
        causes == [k \in 1..Len(failures) |-> Take(failures[k].root_cause, GroupLimit)]
        keys == FirstSeen(causes, {})
        counted == [k \in 1..Len(keys) |->
                       [cause |-> keys[k], count |-> CountOf(causes, keys[k])]]
    IN  Take(SortedByCount(counted), TopCauses)

\* a / b * 100 as ':.1f' prints it, in tenths of a percent (the nearest
\* tenth, halves to even); the division raises when b = 0
ZeroDivisionError == 0 - 1
Percent(a, b) ==
    IF b = 0 THEN ZeroDivisionError
    ELSE LET q == (2000 * a + b) \div (2 * b)
         IN  IF (2000 * a + b) % (2 * b) = 0 /\ q % 2 = 1 THEN q - 1 ELSE q

\* generate_report.py, lines 46 and 230
pass_rate_Unguarded(passed, total) == Percent(passed, total)

pass_rate(passed, total) == IF total > 0 THEN Percent(passed, total) ELSE 0

\* generate_report.py, line 150; the duration itself is not modelled
average_batch_time(execution) ==
    IF execution.total_batches = 0 THEN ZeroDivisionError ELSE 0

NoResults ==
    [total_batches |-> 0, total_tests |-> 0, total_passed |-> 0,
     total_failed |-> 0, total_errors |-> 0, total_skipped |-> 0,
     batch_results |-> <<>>, top_failure_causes |-> <<>>]

NoReport == [written |-> FALSE, overall_pass_rate |-> 0, csv_pass_rate |-> <<>>,
             timing |-> FALSE]

\* ---- the report files the parser may find ----

PassMessage == << "b", "o", "o", "m" >>
FrameLine == << " ", "a", "t", " ", "F", "o", "o" >>
CauseLine == << "N", "P", "E" >>

FailurePool ==
    { NoElem,
      Elem(PassMessage, "AssertionError", << CauseLine, FrameLine >>),
      Elem(None, "None", <<None>>),
      Elem(None, "AssertionError", << FrameLine, CauseLine >>),
      Elem(<<>>, "TimeoutError", << <<>>, FrameLine, CauseLine >>) }
ErrorPool == { NoElem, Elem(CauseLine, "IllegalStateException", << FrameLine >>) }
SkippedPool == { NoElem, Elem(None, "None", <<None>>) }

CasePool ==
    { TestCase("t", f, e, s, TRUE) : f \in FailurePool, e \in ErrorPool, s \in SkippedPool }

PassingCase == TestCase("t", NoElem, NoElem, NoElem, TRUE)
BadTimeCase == TestCase("t", NoElem, NoElem, NoElem, FALSE)

XmlFile(w, r, ss) == [well_formed |-> w, root |-> r, suites |-> ss]

XmlFilePool ==
    { XmlFile(TRUE, "testsuite", << <<c>> >>) : c \in CasePool }
    \cup { XmlFile(TRUE, "testsuite", << <<>> >>),
           XmlFile(TRUE, "testsuites", << <<PassingCase>>, <<PassingCase>> >>),
           XmlFile(TRUE, "testsuites", <<>>),
           XmlFile(TRUE, "html", <<>>),
           XmlFile(FALSE, "", <<>>),
           XmlFile(TRUE, "testsuite", << <<PassingCase, BadTimeCase>> >>) }

BatchPrefix == << "b", "a", "t", "c", "h", "-" >>
BatchDir(n, x, fs) == [name |-> BatchPrefix \o n, xml_dir |-> x, xml_files |-> fs]

\* main, line 221
batch_name_of(batch_dir) == replace(batch_dir.name, BatchPrefix)

\* The j-th cause text: texts of different j differ at character GroupLimit,
\* texts of one j and different tails differ only after it.
Letters == << "a", "b", "c", "d", "e", "f", "g", "h", "i", "j", "k", "l", "m", "n" >>
CauseText(j, tail) == Chars(GroupLimit - 1, "x") \o << Letters[j], tail >>
FailingCase(j, tail) ==
    TestCase("t", Elem(CauseText(j, tail), "AssertionError", <<None>>),
             NoElem, NoElem, TRUE)

RECURSIVE SetToSeq(_)
SetToSeq(S) ==
    IF S = {} THEN <<>>
    ELSE LET x == CHOOSE y \in S : \A z \in S : y <= z
         IN  <<x>> \o SetToSeq(S \ { x })

\* MaxCauses failures of distinct causes, then a second failure for the
\* causes in again.
ManyCauses(again) ==
    XmlFile(TRUE, "testsuite",
            << [j \in 1..MaxCauses |-> FailingCase(j, "p")]
               \o [k \in 1..Cardinality(again) |-> FailingCase(SetToSeq(again)[k], "q")] >>)

SecondDirPool ==
    { BatchDir(<<"b">>, FALSE, <<>>),
      BatchDir(<<"b">>, TRUE, <<>>),
      BatchDir(<<"b">>, TRUE,
               << XmlFile(TRUE, "testsuite", << <<PassingCase>> >>) >>) }

\* One batch directory with up to MaxXmlFiles report files or with the
\* many-causes file, or two directories of at most one file each.
ArtifactTrees ==
    LET small == { BatchDir(<<"a">>, TRUE, fs) : fs \in SeqsUpTo(XmlFilePool, MaxXmlFiles) }
                 \cup { BatchDir(<<"a">>, FALSE, <<>>) }
        many == { BatchDir(<<"a">>, TRUE, << ManyCauses(again) >>) :
                      again \in { S \in SUBSET (1..MaxCauses) : Cardinality(S) <= MaxRepeats } }
    IN  { <<>> } \cup { <<d>> : d \in small \cup many }
                 \cup { <<d, e>> : d \in { x \in small : Len(x.xml_files) <= 1 },
                                  e \in SecondDirPool }

ExecutionFiles ==
    { [exists |-> e, total_batches |-> n] : e \in BOOLEAN, n \in 0..1 }
    \ { [exists |-> FALSE, total_batches |-> 1] }

ParseInit ==
    /\ xml_dirs \in ArtifactTrees
    /\ dir_idx = 1
    /\ file_idx = 1
    /\ test_results = <<>>
    /\ all_results = NoResults
    /\ parse_pc = "start"
    /\ report = NoReport

\* main, lines 191-202: nothing to analyse
NoBatchDirs ==
    /\ parse_pc = "start"
    /\ xml_dirs = <<>>
    /\ parse_pc' = "stopped"
    /\ UNCHANGED <<xml_dirs, dir_idx, file_idx, test_results, all_results, report>>
    /\ UNCHANGED notParse

\* main, lines 204-217
BeginAnalysis ==
    /\ parse_pc = "start"
    /\ xml_dirs # <<>>
    /\ parse_pc' = "batch"
    /\ UNCHANGED <<xml_dirs, dir_idx, file_idx, test_results, all_results, report>>
    /\ UNCHANGED notParse

AfterBatch(d) == IF d < Len(xml_dirs) THEN "batch" ELSE "top"

\* analyze_batch_results, lines 117-119, and main, line 228: a batch
\* directory without xml-results gets no entry
SkipBatchDir ==
    /\ parse_pc = "batch"
    /\ ~xml_dirs[dir_idx].xml_dir
    /\ dir_idx' = dir_idx + 1
    /\ parse_pc' = AfterBatch(dir_idx)
    /\ UNCHANGED <<xml_dirs, file_idx, test_results, all_results, report>>
    /\ UNCHANGED notParse

\* a loop that gives up the batch's results on a file it cannot parse
ParseFile_DropsOnBadFile ==
    /\ parse_pc = "batch"
    /\ xml_dirs[dir_idx].xml_dir
    /\ file_idx <= Len(xml_dirs[dir_idx].xml_files)
    /\ LET parsed == parse_junit_xml(xml_dirs[dir_idx].xml_files[file_idx], file_idx)
       IN  test_results' = IF ~parsed.none THEN test_results \o parsed.results ELSE <<>>
    /\ file_idx' = file_idx + 1
    /\ UNCHANGED <<xml_dirs, dir_idx, all_results, parse_pc, report>>
    /\ UNCHANGED notParse

\* analyze_batch_results, lines 142-145: one turn of the loop over the files
ParseFile ==
    /\ parse_pc = "batch"
    /\ xml_dirs[dir_idx].xml_dir
    /\ file_idx <= Len(xml_dirs[dir_idx].xml_files)
    /\ LET parsed == parse_junit_xml(xml_dirs[dir_idx].xml_files[file_idx], file_idx)
       IN  test_results' = IF ~parsed.none /\ parsed.results # <<>>
                           THEN test_results \o parsed.results
                           ELSE test_results
    /\ file_idx' = file_idx + 1
    /\ UNCHANGED <<xml_dirs, dir_idx, all_results, parse_pc, report>>
    /\ UNCHANGED notParse

\* analyze_batch_results, lines 137-139 and 147-187, and main, lines 228-235
AnalyzeBatch ==
    /\ parse_pc = "batch"
    /\ xml_dirs[dir_idx].xml_dir
    /\ file_idx > Len(xml_dirs[dir_idx].xml_files)
    /\ LET b == analyze(batch_name_of(xml_dirs[dir_idx]), test_results)
       IN  all_results' =
               [all_results EXCEPT
                   !.batch_results = Append(@, b),
                   !.total_batches = @ + 1,
                   !.total_tests = @ + b.total_tests,
                   !.total_passed = @ + b.passed_tests,
                   !.total_failed = @ + b.failed_tests,
                   !.total_errors = @ + b.error_tests,
                   !.total_skipped = @ + b.skipped_tests]
    /\ dir_idx' = dir_idx + 1
    /\ file_idx' = 1
    /\ test_results' = <<>>
    /\ parse_pc' = AfterBatch(dir_idx)
    /\ UNCHANGED <<xml_dirs, report>>
    /\ UNCHANGED notParse

\* main, lines 244-260: rank the causes and save the aggregate
SaveAnalysis ==
    /\ parse_pc = "top"
    /\ all_results' =
           [all_results EXCEPT
               !.top_failure_causes = top_failure_causes(all_results.batch_results)]
    /\ parse_pc' = "saved"
    /\ UNCHANGED <<xml_dirs, dir_idx, file_idx, test_results, report>>
    /\ UNCHANGED notParse

\* generate_markdown_report, lines 15-17: no parsed results to render
NoResultsFile ==
    /\ parse_pc = "stopped"
    /\ parse_pc' = "no report"
    /\ UNCHANGED <<xml_dirs, dir_idx, file_idx, test_results, all_results, report>>
    /\ UNCHANGED notParse

\* What rendering computes: the overall and the per-batch pass rates and,
\* when the executor's results file exists, the average batch time.
Rendered(execution) ==
    [written |-> TRUE,
     overall_pass_rate |-> pass_rate(all_results.total_passed, all_results.total_tests),
     csv_pass_rate |-> [b \in 1..Len(all_results.batch_results) |->
                           pass_rate(all_results.batch_results[b].passed_tests,
                                     all_results.batch_results[b].total_tests)],
     timing |-> execution.exists]

Raises(execution) ==
    \/ Rendered(execution).overall_pass_rate = ZeroDivisionError
    \/ \E b \in 1..Len(all_results.batch_results) :
           Rendered(execution).csv_pass_rate[b] = ZeroDivisionError
    \/ execution.exists /\ average_batch_time(execution) = ZeroDivisionError

\* generate_markdown_report and generate_csv_summary
GenerateReport ==
    /\ parse_pc = "saved"
    /\ \E execution \in ExecutionFiles :
           /\ ~Raises(execution)
           /\ report' = Rendered(execution)
    /\ parse_pc' = "reported"
    /\ UNCHANGED <<xml_dirs, dir_idx, file_idx, test_results, all_results>>
    /\ UNCHANGED notParse

\* generate_markdown_report: a division by zero ends the script, no report
ReportRaises ==
    /\ parse_pc = "saved"
    /\ \E execution \in ExecutionFiles : Raises(execution)
    /\ parse_pc' = "crashed"
    /\ UNCHANGED <<xml_dirs, dir_idx, file_idx, test_results, all_results, report>>
    /\ UNCHANGED notParse

ParseNext ==
    \/ NoBatchDirs
    \/ BeginAnalysis
    \/ SkipBatchDir
    \/ ParseFile
    \/ AnalyzeBatch
    \/ SaveAnalysis
    \/ NoResultsFile
    \/ GenerateReport
    \/ ReportRaises

-----------------------------------------------------------------------------
(* test_cleanup_analysis.py: the duplicate groups and the deletion list.   *)
(* The configuration, container and size heuristics of analyze_test_files  *)
(* work on other fields of the analysis and are left out.                  *)

TestWord == << "T", "e", "s", "t" >>
UnitTestWord == << "U", "n", "i", "t", "T", "e", "s", "t" >>
IntegrationTestWord == << "I", "n", "t", "e", "g", "r", "a", "t", "i", "o", "n", "T", "e", "s", "t" >>
UnitLower == << "u", "n", "i", "t" >>
IntegrationLower == << "i", "n", "t", "e", "g", "r", "a", "t", "i", "o", "n" >>

EndsWith(s, p) == Len(s) >= Len(p) /\ SubSeq(s, Len(s) - Len(p) + 1, Len(s)) = p
Contains(s, p) == \E k \in 1..(Len(s) - Len(p) + 1) : SubSeq(s, k, k + Len(p) - 1) = p

\* str.lower(), for the capitals the class names use
lower_char(c) ==
    CASE c = "U" -> "u" [] c = "I" -> "i" [] c = "T" -> "t" [] c = "R" -> "r"
      [] OTHER -> c
lower(s) == [k \in 1..Len(s) |-> lower_char(s[k])]

\* analyze_test_files, line 40
base_name(class_name) ==
    replace(replace(replace(class_name, TestWord), UnitTestWord), IntegrationTestWord)

StemPool == { << "U", "s", "e", "r" >>, << "R", "o", "l", "e" >> }
SuffixPool == { TestWord, UnitTestWord, IntegrationTestWord }
CleanupCategories == { "entity", "service" }
InventoryRows ==
    { [class_name |-> x \o s, category |-> c] :
          x \in StemPool, s \in SuffixPool, c \in CleanupCategories }
CleanupInventories ==
    { inv \in SeqsUpTo(InventoryRows, MaxRows) :
          \A i, j \in 1..Len(inv) : i # j => inv[i].class_name # inv[j].class_name }

CleanInit ==
    /\ inventory \in CleanupInventories
    /\ row_idx = 1
    /\ name_groups = <<>>
    /\ potential_duplicates = <<>>
    /\ unit_vs_integration_duplicates = <<>>
    /\ deletion_candidates = <<>>
    /\ clean_pc = "group"

\* name_groups[base_name].append(test), keys in insertion order
AddToGroup(groups, b, test) ==
    IF \E g \in 1..Len(groups) : groups[g].base_name = b
    THEN [g \in 1..Len(groups) |->
             IF groups[g].base_name = b
             THEN [groups[g] EXCEPT !.tests = Append(@, test)]
             ELSE groups[g]]
    ELSE Append(groups, [base_name |-> b, tests |-> <<test>>])

\* analyze_test_files, lines 39-41: one turn of the grouping loop
GroupTest ==
    /\ clean_pc = "group"
    /\ row_idx <= Len(inventory)
    /\ name_groups' = AddToGroup(name_groups, base_name(inventory[row_idx].class_name),
                                 inventory[row_idx])
    /\ row_idx' = row_idx + 1
    /\ UNCHANGED <<inventory, potential_duplicates, unit_vs_integration_duplicates,
                   deletion_candidates, clean_pc>>
    /\ UNCHANGED notClean

ClassNames(tests) == [k \in 1..Len(tests) |-> tests[k].class_name]

\* analyze_test_files, lines 44-57: entity duplicates of one group
entity_duplicates(groups) ==
    LET entity_tests(g) == SelectSeq(groups[g].tests, LAMBDA t : t.category = "entity")
        hits == SelectSeq([g \in 1..Len(groups) |-> g],
                          LAMBDA g : Len(groups[g].tests) > 1 /\ Len(entity_tests(g)) > 1)
    IN  [k \in 1..Len(hits) |->
            [base_name |-> groups[hits[k]].base_name,
             tests |-> ClassNames(entity_tests(hits[k]))]]

\* analyze_test_files, lines 109-119
unit_integration_overlaps(groups) ==
    LET unit_tests(g) ==
            SelectSeq(groups[g].tests,
                      LAMBDA t : Contains(lower(t.class_name), UnitLower))
        integration_tests(g) ==
            SelectSeq(groups[g].tests,
                      LAMBDA t : \/ Contains(lower(t.class_name), IntegrationLower)
                                 \/ t.category = "integration")
        hits == SelectSeq([g \in 1..Len(groups) |-> g],
                          LAMBDA g : unit_tests(g) # <<>> /\ integration_tests(g) # <<>>)
    IN  [k \in 1..Len(hits) |->
            [base_name |-> groups[hits[k]].base_name,
             unit_tests |-> ClassNames(unit_tests(hits[k])),
             integration_tests |-> ClassNames(integration_tests(hits[k]))]]

\* analyze_test_files, lines 44-57 and 109-119, once the groups are complete
FindDuplicates ==
    /\ clean_pc = "group"
    /\ row_idx > Len(inventory)
    /\ potential_duplicates' = entity_duplicates(name_groups)
    /\ unit_vs_integration_duplicates' = unit_integration_overlaps(name_groups)
    /\ clean_pc' = "list"
    /\ UNCHANGED <<inventory, row_idx, name_groups, deletion_candidates>>
    /\ UNCHANGED notClean

\* generate_specific_deletion_list, lines 225-236: keep UnitTest, delete Test
entity_deletions(duplicate) ==
    SelectSeq(duplicate.tests,
              LAMBDA n : /\ EndsWith(n, TestWord)
                         /\ ~EndsWith(n, UnitTestWord)
                         /\ \E k \in 1..Len(duplicate.tests) :
                                EndsWith(duplicate.tests[k], UnitTestWord))

ListDeletions ==
    /\ clean_pc = "list"
    /\ deletion_candidates' =
           Flatten([d \in 1..Len(potential_duplicates) |->
                       entity_deletions(potential_duplicates[d])])
    /\ clean_pc' = "listed"
    /\ UNCHANGED <<inventory, row_idx, name_groups, potential_duplicates,
                   unit_vs_integration_duplicates>>
    /\ UNCHANGED notClean

CleanNext == GroupTest \/ FindDuplicates \/ ListDeletions

-----------------------------------------------------------------------------
(* Properties of the executor, checked under SpecExec *)

\* C1: batches run strictly one at a time in manifest order: at most one
\* runner invocation is in flight, the invocation in flight is that of
\* batch idx, and it was started only after the records of batches
\* 1..idx-1 had all been produced (appended to results, in that order).
C1_OneBatchAtATime ==
    /\ inflight \in { 0, 1 }
    /\ \A k \in 1..Len(events) :
          events[k].outcome = "running" => k = Len(events)
    /\ pc = "running" =>
          /\ inflight = 1
          /\ Len(events) = idx
          /\ events[idx].index = idx
          /\ Len(results) = idx - 1
          /\ \A j \in 1..(idx - 1) : results[j].batch_name = batches[j].name
    /\ pc \in { "start", "loop", "copy", "save", "append", "sleep", "save_all",
                "done" } => inflight = 0

\* C1 witness: the second batch is running and the first batch's record is
\* in results.
C1_Witness ==
    /\ pc = "running"
    /\ idx = 2
    /\ inflight = 1
    /\ Len(results) = 1

\* The record execute_batch made for the batch of invocation k: the one in
\* results once appended, the one about to be returned before.
RecordOf(k) ==
    IF Len(results) >= events[k].index THEN results[events[k].index] ELSE record

\* C2: a runner invocation that timed out, at any position of the
\* manifest, yields a record with exit_code -1, success false and the
\* timed-out marker in stderr, and does not end the run: the executor is
\* then appending that record or has gone on, and a run that ends has a
\* record for every selected batch.
C2_TimeoutRecordedRunGoesOn ==
    \A k \in 1..Len(events) :
        events[k].outcome = "timeout" =>
            /\ RecordOf(k).batch_name = batches[events[k].index].name
            /\ RecordOf(k).exit_code = -1
            /\ RecordOf(k).success = FALSE
            /\ RecordOf(k).stderr = TimedOutMarker
            /\ pc # "crashed"
            /\ Len(results) < events[k].index => pc \in { "append", "killed" }
            /\ pc = "done" => Len(results) = Len(batches)

\* C2 witness: the first batch timed out, its record is in results and the
\* second batch is running.
C2_Witness ==
    /\ Len(events) = 2
    /\ events[1].outcome = "timeout"
    /\ events[2].outcome = "running"
    /\ pc = "running"
    /\ results[1].exit_code = -1

\* C3: a runner that could not be invoked (an exception other than the
\* timeout) yields a record with exit_code -2, success false and the
\* fault's text in stderr, and does not end the run: the executor is then
\* appending that record or has gone on, and a run that ends has a record
\* for every selected batch.
C3_FaultRecordedRunGoesOn ==
    \A k \in 1..Len(events) :
        events[k].outcome = "fault" =>
            /\ RecordOf(k).batch_name = batches[events[k].index].name
            /\ RecordOf(k).exit_code = -2
            /\ RecordOf(k).success = FALSE
            /\ RecordOf(k).stderr = ExecutionError(events[k].text)
            /\ pc # "crashed"
            /\ Len(results) < events[k].index => pc \in { "append", "killed" }
            /\ pc = "done" => Len(results) = Len(batches)

\* C3 witness: the first batch's runner could not be invoked, its record
\* is in results and the second batch is running.
C3_Witness ==
    /\ Len(events) = 2
    /\ events[1].outcome = "fault"
    /\ events[2].outcome = "running"
    /\ pc = "running"
    /\ results[1].exit_code = -2

\* A record is on disk: in its batch's batch_result.json or in the overall
\* results file.
OnDisk(r) ==
    \/ r \in batch_files
    \/ /\ overall.written
       /\ \E k \in 1..Len(overall.batch_results) : overall.batch_results[k] = r

\* C4: the record of every completed batch (returned by execute_batch and
\* appended to results) is on disk from then on, so that the records of
\* the batches completed so far survive the process being terminated.
C4_CompletedRecordsOnDisk ==
    \A j \in 1..Len(results) : OnDisk(results[j])

\* C5: every selected batch is invoked exactly once and never again: the
\* k-th invocation is that of batch k, results holds the records of
\* batches 1, 2, ... in manifest order, and when the run is done results
\* and the overall file hold exactly one record per selected batch.
C5_EachBatchOnceInOrder ==
    /\ \A k \in 1..Len(events) : events[k].index = k
    /\ Len(events) <= Len(batches)
    /\ Len(results) <= Len(events)
    /\ \A j \in 1..Len(results) :
          /\ results[j].batch_name = batches[j].name
          /\ results[j].batch_index = j
    /\ pc = "done" =>
          /\ Len(results) = Len(batches)
          /\ Len(events) = Len(batches)
          /\ overall.batch_results = results
          /\ overall.total_batches = Len(batches)

\* C5 witness: a run of three batches is done, the first of which failed
\* and the second of which timed out.
C5_Witness ==
    /\ pc = "done"
    /\ Len(batches) = 3
    /\ Len(results) = 3
    /\ results[1].exit_code = 1
    /\ results[2].exit_code = -1

\* C15: for n selected batches exactly max(0, n-1) cooldown delays occur,
\* the i-th after batch i has completed and before batch i+1 starts, none
\* after the last batch.
C15_CooldownBetweenBatches ==
    LET n == Len(batches)
    IN  /\ delays <= (IF n = 0 THEN 0 ELSE n - 1)
        /\ pc = "loop" => delays = idx - 1 /\ Len(results) = idx - 1
                                            /\ Len(events) = idx - 1
        /\ pc \in { "running", "copy", "save", "append" } =>
               delays = idx - 1 /\ Len(results) = idx - 1 /\ Len(events) = idx
        /\ pc = "sleep" => delays = idx - 1 /\ Len(results) = idx /\ idx < n
                                             /\ inflight = 0
        /\ pc \in { "save_all", "done" } =>
               delays = (IF n = 0 THEN 0 ELSE n - 1) /\ Len(results) = n

\* A run of three batches has ended with two delays.
C15_Witness ==
    /\ pc = "done"
    /\ Len(batches) = 3
    /\ Len(results) = 3
    /\ delays = 2

InManifest(b) == \E j \in 1..Len(batch_manifest) : batch_manifest[j] = b
PosInManifest(b) == CHOOSE j \in 1..Len(batch_manifest) : batch_manifest[j] = b
Selected(j) == \E k \in 1..Len(batches) : batches[k] = batch_manifest[j]

\* C16: once the manifest is loaded the executed list is a subsequence of
\* the manifest with its entries unaltered: in fast mode the batches whose
\* name contains 'fast' or whose estimate is below 5 minutes, in sample mode
\* the first 3, otherwise all; and it stays as it is while batches run.
C16_NarrowingIsAFilter ==
    idx >= 1 =>
        /\ \A k \in 1..Len(batches) : InManifest(batches[k])
        /\ \A k, l \in 1..Len(batches) :
               k < l => PosInManifest(batches[k]) < PosInManifest(batches[l])
        /\ argv = "--fast" =>
               \A j \in 1..Len(batch_manifest) :
                   Selected(j) <=>
                       \/ \E q \in 1..Len(batch_manifest[j].name) :
                              batch_manifest[j].name[q] = "fast"
                       \/ batch_manifest[j].estimated_runtime_minutes < 50
        /\ argv = "--sample" =>
               \A j \in 1..Len(batch_manifest) : Selected(j) <=> j <= 3
        /\ argv = "" => batches = batch_manifest

\* A fast run has ended that took a batch for its name alone and left out a
\* batch estimated at exactly 5 minutes.
C16_Witness ==
    /\ pc = "done"
    /\ argv = "--fast"
    /\ \E k \in 1..Len(batches) : batches[k].estimated_runtime_minutes >= 50
    /\ \E j \in 1..Len(batch_manifest) :
           batch_manifest[j].estimated_runtime_minutes = 50 /\ ~Selected(j)

\* C18: the report files copied into a batch's artifact directory are the
\* ones that batch's own runner invocation produced.
C18_ArtifactsAreTheBatchsOwn ==
    \A a \in artifacts : a.from = a.batch

\* C26: a runner invocation that returned with exit code c yields a record
\* with exit_code c and success = (c = 0), whatever happens to the copy of
\* the reports and the write of the batch's record file afterwards.
C26_ReturnedCodeIsRecorded ==
    \A k \in 1..Len(events) :
        events[k].outcome = "returned" =>
            /\ RecordOf(k).exit_code = events[k].code
            /\ RecordOf(k).success = (events[k].code = 0)

\* parse_test_results_fixed.py, lines 117-119 and 219-230, read on the
\* executor's artifacts: the batches of the run that get an entry in the
\* parser's breakdown are those whose artifact directory holds xml-results.
parsed_batches ==
    { i \in 1..Len(batches) : \E a \in artifacts : a.batch = i }

\* C29: every batch the executor ran, timed-out and faulted ones included,
\* gets an entry in the parser's breakdown, so the parser's total_batches
\* is the executor's total_batches.
C29_EveryExecutedBatchIsParsed ==
    overall.written =>
        /\ \A k \in 1..overall.total_batches : k \in parsed_batches
        /\ Cardinality(parsed_batches) = overall.total_batches

-----------------------------------------------------------------------------
(* Properties of the planner, checked under SpecPlan *)

\* The manifest entries that hold inventory row i.
Holders(i) ==
    { k \in 1..Len(manifest) :
        \E q \in 1..Len(manifest[k].class_patterns) :
            manifest[k].class_patterns[q] = test_files[i].class_name }

\* How often inventory row i occurs in the manifest.
Occurrences(i) ==
    Cardinality({ <<k, q>> \in (1..Len(manifest)) \X (1..MaxUnits + 1) :
                    /\ q <= Len(manifest[k].class_patterns)
                    /\ manifest[k].class_patterns[q] = test_files[i].class_name })

\* Every unit of the manifest is in exactly one batch, once, and the rule
\* of that batch accepts the unit's category and runtime bucket.
InOneBatchOfAMatchingRule ==
    \A i \in 1..Len(test_files) :
        Holders(i) # {} =>
            /\ Cardinality(Holders(i)) = 1
            /\ Occurrences(i) = 1
            /\ \A k \in Holders(i) :
                  /\ test_files[i].category \in ConfigOf(manifest[k].rule_index).categories
                  /\ test_files[i].runtime_estimate
                        \in ConfigOf(manifest[k].rule_index).runtime_filters

\* C6 as stated: for all inventories and all rule sets, every unit of the
\* manifest is in exactly one batch, of a rule that accepts it.
C6_AnyRuleSet == InOneBatchOfAMatchingRule

\* No (category, runtime bucket) pair is accepted by two rules.
RulesDisjoint ==
    \A r1, r2 \in 1..Len(category_groups) :
        r1 # r2 =>
            \/ ConfigOf(r1).categories \cap ConfigOf(r2).categories = {}
            \/ ConfigOf(r1).runtime_filters \cap ConfigOf(r2).runtime_filters = {}

\* C6 as amended: for all inventories and all rule sets in which no
\* (category, runtime bucket) pair is accepted by two rules, every unit of
\* the manifest is in exactly one batch, once, and the rule of that batch
\* accepts the unit's category and runtime bucket.
C6_DisjointRuleSet == InOneBatchOfAMatchingRule \/ ~RulesDisjoint

\* C6 witness: a manifest was written under a disjoint rule table other
\* than the source's, with two batches that hold all three units.
C6_Witness ==
    /\ plan_pc = "written"
    /\ RulesDisjoint
    /\ config_edit.field = "runtime_filters"
    /\ Len(test_files) = 3
    /\ Len(manifest) >= 2
    /\ \A i \in 1..Len(test_files) : Holders(i) # {}

\* The entries rule r put in the manifest, as indices.
EntriesOf(r) == { k \in 1..Len(manifest) : manifest[k].rule_index = r }

\* The number of inventory rows rule r accepts, counted on the inventory.
MatchCount(r) ==
    Cardinality({ i \in 1..Len(test_files) :
                    /\ test_files[i].category \in ConfigOf(r).categories
                    /\ test_files[i].runtime_estimate \in ConfigOf(r).runtime_filters })

RECURSIVE SumOver(_, _)
SumOver(S, f) ==
    IF S = {} THEN 0
    ELSE LET x == CHOOSE y \in S : TRUE IN f[x] + SumOver(S \ { x }, f)

\* C7: a processed rule with max_size M >= 1 that matches K >= 1 units has
\* exactly ceil(K/M) sub-batches in the manifest (the n with
\* (n-1)*M < K <= n*M), each of 1..M units, and their sizes add up to K.
C7_SplitSizes ==
    \A r \in 1..Len(category_groups) :
        (r < rule_idx /\ ConfigOf(r).max_size >= 1 /\ MatchCount(r) >= 1) =>
            LET n == Cardinality(EntriesOf(r))
                K == MatchCount(r)
                M == ConfigOf(r).max_size
                size == [k \in 1..Len(manifest) |-> manifest[k].test_count]
            IN  /\ (n - 1) * M < K
                /\ K <= n * M
                /\ \A k \in EntriesOf(r) :
                      /\ size[k] >= 1
                      /\ size[k] <= M
                      /\ size[k] = Len(manifest[k].class_patterns)
                /\ SumOver(EntriesOf(r), size) = K

\* C7 witness: a written manifest in which a rule with max_size 2 that
\* matches 3 units has sub-batches of 2 and 1 units.
C7_Witness ==
    /\ plan_pc = "written"
    /\ \E r \in 1..Len(category_groups) :
          /\ ConfigOf(r).max_size = 2
          /\ MatchCount(r) = 3
          /\ \E k \in 1..(Len(manifest) - 1) :
                /\ manifest[k].rule_index = r
                /\ manifest[k].test_count = 2
                /\ manifest[k + 1].rule_index = r
                /\ manifest[k + 1].test_count = 1

\* C8: when some rule's max_size is less than 1 planning fails: it never
\* completes and writes a manifest, and it never goes past a rule that
\* matched units leaving no batch for it in the manifest.
C8_PlanningFailsOnBadMaxSize ==
    \A r \in 1..Len(category_groups) :
        ConfigOf(r).max_size < 1 =>
            /\ plan_pc # "written"
            /\ ~(r < rule_idx /\ MatchCount(r) >= 1 /\ EntriesOf(r) = {})

\* The units of manifest entry k that are in runtime bucket b.
UnitsIn(k, b) ==
    Cardinality({ u \in 1..Len(manifest[k].class_patterns) :
                    test_files[manifest[k].class_patterns[u]].runtime_estimate = b })

\* C19: every batch's estimated runtime is, in tenths of a minute,
\* 1 * #short + 5 * #medium + 20 * #long + 50 * #very-long over its units.
C19_EstimateIsAdditive ==
    \A k \in 1..Len(manifest) :
        /\ manifest[k].estimated_runtime_minutes =
               1 * UnitsIn(k, "short") + 5 * UnitsIn(k, "medium")
               + 20 * UnitsIn(k, "long") + 50 * UnitsIn(k, "very-long")
        /\ UnitsIn(k, "short") + UnitsIn(k, "medium") + UnitsIn(k, "long")
               + UnitsIn(k, "very-long") = manifest[k].test_count

\* A manifest was written with a batch of units of two buckets and batches
\* that between them hold a unit of each of the four buckets.
C19_Witness ==
    /\ plan_pc = "written"
    /\ \E k \in 1..Len(manifest) :
           Cardinality({ b \in RuntimeBuckets : UnitsIn(k, b) >= 1 }) >= 2
    /\ \E k \in 1..Len(manifest) : UnitsIn(k, "medium") >= 1
    /\ \E k \in 1..Len(manifest) : UnitsIn(k, "long") >= 1

\* Two rules of the table main runs with accept one (category, runtime
\* bucket) pair.
TableOverlaps ==
    \E r1, r2 \in 1..Len(category_groups) :
        /\ r1 # r2
        /\ ConfigOf(r1).categories \cap ConfigOf(r2).categories # {}
        /\ ConfigOf(r1).runtime_filters \cap ConfigOf(r2).runtime_filters # {}

\* C21 as stated: the source rule table is not strictly disjoint, some
\* (category, runtime bucket) pair is accepted by two of its rules.
C21_SourceTableOverlaps ==
    (plan_pc = "written" /\ config_edit.field = "none") => TableOverlaps

\* C21 as amended: the source rule table is disjoint.  With the categories
\* and runtime filters of the source (any max_size), no (category, runtime
\* bucket) pair is accepted by two rules, and no unit is placed in the
\* batches of two rules.
C21_SourceTableDisjoint ==
    config_edit.field # "runtime_filters" =>
        /\ ~TableOverlaps
        /\ \A i \in 1..Len(test_files) :
              Cardinality({ manifest[k].rule_index : k \in Holders(i) }) <= 1

\* C21 witness: the source table planned an inventory with service units
\* of different buckets, which two rules of the same category took apart.
C21_Witness ==
    /\ plan_pc = "written"
    /\ config_edit.field = "none"
    /\ \E r1, r2 \in 1..Len(category_groups) :
          /\ r1 # r2
          /\ category_groups[r1].categories = category_groups[r2].categories
          /\ EntriesOf(r1) # {}
          /\ EntriesOf(r2) # {}
    /\ \A i \in 1..Len(test_files) : Cardinality(Holders(i)) = 1

\* The inventory rows rule r accepts, as class names in inventory order.
MatchingRows(r) ==
    LET rows == [i \in 1..Len(test_files) |-> test_files[i].class_name]
        Accepted(i) ==
            /\ test_files[i].category \in ConfigOf(r).categories
            /\ test_files[i].runtime_estimate \in ConfigOf(r).runtime_filters
    IN  SelectSeq(rows, Accepted)

\* The units of rule r's manifest entries from entry k on, in manifest order.
RECURSIVE UnitsFrom(_, _)
UnitsFrom(k, r) ==
    IF k > Len(manifest) THEN <<>>
    ELSE (IF manifest[k].rule_index = r THEN manifest[k].class_patterns ELSE <<>>)
            \o UnitsFrom(k + 1, r)

\* C22: for every processed rule with max_size >= 1, its sub-batches taken
\* in manifest order carry the indices 1, 2, ... and concatenated they are
\* the rule's matching units in inventory order; and all entries of an
\* earlier-declared rule come before all entries of a later-declared one.
C22_OrderKept ==
    /\ \A r \in 1..Len(category_groups) :
          (r < rule_idx /\ ConfigOf(r).max_size >= 1) =>
              /\ UnitsFrom(1, r) = MatchingRows(r)
              /\ \A k \in EntriesOf(r) :
                    LET j == Cardinality({ q \in EntriesOf(r) : q <= k })
                    IN  manifest[k].name =
                            IF Cardinality(EntriesOf(r)) = 1 THEN ConfigOf(r).name
                            ELSE Append(ConfigOf(r).name, ToString(j))
    /\ \A k1, k2 \in 1..Len(manifest) :
          k1 < k2 => manifest[k1].rule_index <= manifest[k2].rule_index

\* C22 witness: a written manifest in which a rule has two sub-batches
\* whose units are not neighbours in the inventory, and a later rule has
\* the unit between them.
C22_Witness ==
    /\ plan_pc = "written"
    /\ \E k \in 1..(Len(manifest) - 2) :
          /\ manifest[k].rule_index = manifest[k + 1].rule_index
          /\ manifest[k + 2].rule_index > manifest[k + 1].rule_index
          /\ manifest[k].class_patterns = << 1 >>
          /\ manifest[k + 1].class_patterns = << 3 >>
          /\ manifest[k + 2].class_patterns = << 2 >>

\* execute_batch, line 94: the directory of a batch's record and reports
artifacts_dir(batch_name) == << "artifacts", "batch" >> \o batch_name

\* C23: the batch names of a manifest are pairwise distinct, a rule's only
\* chunk being named after the rule and its several chunks after the rule
\* with an index of 1..n, so no two batches have the same artifact
\* directory.
C23_DistinctBatchNames ==
    /\ \A k1, k2 \in 1..Len(manifest) :
          k1 # k2 =>
              /\ manifest[k1].name # manifest[k2].name
              /\ artifacts_dir(manifest[k1].name) # artifacts_dir(manifest[k2].name)
    /\ \A k \in 1..Len(manifest) :
          LET r == manifest[k].rule_index
              n == Cardinality(EntriesOf(r))
          IN  \/ n = 1 /\ manifest[k].name = category_groups[r].name
              \/ /\ r < rule_idx
                 /\ n > 1
                 /\ \E j \in 1..n :
                       manifest[k].name = Append(category_groups[r].name, ToString(j))

\* C23 witness: a written manifest of three batches, two of them chunks
\* of one rule and the third the only chunk of another rule.
C23_Witness ==
    /\ plan_pc = "written"
    /\ Len(manifest) = 3
    /\ \E k1, k2, k3 \in 1..3 :
          /\ k1 # k2
          /\ manifest[k1].rule_index = manifest[k2].rule_index
          /\ manifest[k3].rule_index # manifest[k1].rule_index
          /\ manifest[k3].name = category_groups[manifest[k3].rule_index].name

\* C25: every unit of the inventory, whatever (category, runtime bucket)
\* pair the classification gave it, is in a batch of the written manifest
\* (the rules having a max_size of 1 or more).
C25_EveryUnitPlaced ==
    (/\ plan_pc = "written"
     /\ \A r \in 1..Len(category_groups) : ConfigOf(r).max_size >= 1)
        => \A i \in 1..Len(test_files) : Holders(i) # {}

-----------------------------------------------------------------------------
(* Properties of the remover, checked under SpecRemove *)

\* C9: no file is removed while another file of the tree refers to it:
\* every removal found no referencing file at the time, and a candidate
\* that has referencing files is skipped and stays on disk.
C9_NeverRemovesReferenced ==
    \A k \in 1..Len(rm_log) :
        rm_log[k].op = "remove" => rm_log[k].referenced_by = {}

Processed ==
    IF rm_pc \in { "find", "scan", "decide", "report", "done" } THEN cand_idx - 1 ELSE 0

\* The outcomes recorded for class c: missing, skipped for its dependents,
\* skipped for a removal error, removed.
Outcomes(c) ==
    Cardinality({ k \in 1..Len(missing_files) : missing_files[k] = c })
    + Cardinality({ k \in 1..Len(skipped_files) : skipped_files[k].file = c })
    + Cardinality({ k \in 1..Len(removed_files) : removed_files[k].file = c })

\* C17: every processed candidate has exactly one recorded outcome: each
\* class has as many outcomes as processed candidate rows, and the outcome
\* lists together have as many entries as candidates processed, all of them
\* once the loop has ended.
C17_OneOutcomePerCandidate ==
    /\ \A c \in ClassPool :
           Outcomes(c) = Cardinality({ k \in 1..Processed : candidates[k] = c })
    /\ Len(missing_files) + Len(skipped_files) + Len(removed_files) = Processed
    /\ rm_pc \in { "report", "done" } => Processed = Len(candidates)

\* A run over two candidates has ended with a removal error recorded and
\* one more outcome.
C17_Witness ==
    /\ rm_pc = "done"
    /\ Len(candidates) = 2
    /\ \E k \in 1..Len(skipped_files) : skipped_files[k].error # ""
    /\ Len(missing_files) + Len(removed_files) >= 1

\* C27: a candidate whose dependency scan faulted is not removed: no
\* removal follows a failed scan of the same class.
C27_FailedScanBlocksRemoval ==
    \A k \in 1..(Len(rm_log) - 1) :
        rm_log[k].op = "scan failed" =>
            ~(rm_log[k + 1].op = "remove" /\ rm_log[k + 1].class = rm_log[k].class)

-----------------------------------------------------------------------------
(* Properties of the parser and the report generator, checked under SpecParse *)

\* The directory a per-batch entry was made from.
DirOf(bn) == CHOOSE d \in 1..Len(xml_dirs) : batch_name_of(xml_dirs[d]) = bn

\* Every test result the parser holds, with the directory it came from.
AllParsed ==
    { <<dir_idx, test_results[k]>> : k \in 1..Len(test_results) }
    \cup UNION { { <<DirOf(all_results.batch_results[b].batch_name),
                     all_results.batch_results[b].test_results[k]>> :
                       k \in 1..Len(all_results.batch_results[b].test_results) } :
                 b \in 1..Len(all_results.batch_results) }

SourceCase(p) ==
    xml_dirs[p[1]].xml_files[p[2].source[1]].suites[p[2].source[2]][p[2].source[3]]

\* C11: every test result has exactly one status of passed, failed, error,
\* skipped, by first match: failed if its test case has a failure marker,
\* else error if it has an error marker, else skipped if it has a skip
\* marker, else passed.
C11_StatusByPrecedence ==
    \A p \in AllParsed :
        LET tc == SourceCase(p)
        IN  /\ p[2].status \in { "passed", "failed", "error", "skipped" }
            /\ tc.failure.present => p[2].status = "failed"
            /\ ~tc.failure.present /\ tc.error.present => p[2].status = "error"
            /\ ~tc.failure.present /\ ~tc.error.present /\ tc.skipped.present
                   => p[2].status = "skipped"
            /\ ~tc.failure.present /\ ~tc.error.present /\ ~tc.skipped.present
                   => p[2].status = "passed"

\* A record with both a failure and a skip marker has been given failed.
C11_Witness ==
    \E p \in AllParsed :
        /\ SourceCase(p).failure.present
        /\ SourceCase(p).skipped.present
        /\ p[2].status = "failed"

\* A file the parser can read: well-formed, a known root tag, numeric times.
Parseable(xml_file) ==
    /\ xml_file.well_formed
    /\ xml_file.root \in { "testsuite", "testsuites" }
    /\ \A s \in 1..Len(xml_file.suites) :
           \A c \in 1..Len(xml_file.suites[s]) : xml_file.suites[s][c].time_ok

\* The test cases of the parseable files among the first n files of
\* directory d, in file, suite and case order.
CasesOfParseable(d, n) ==
    Flatten([f \in 1..n |->
        IF Parseable(xml_dirs[d].xml_files[f])
        THEN Flatten([s \in 1..Len(xml_dirs[d].xml_files[f].suites) |->
                 [c \in 1..Len(xml_dirs[d].xml_files[f].suites[s]) |-> <<f, s, c>>]])
        ELSE <<>>])

Sources(rs) == [k \in 1..Len(rs) |-> rs[k].source]

\* C12: a malformed file or one with an unrecognized root tag contributes
\* no result and does not end the batch's analysis: the batch's results are
\* those of its parseable files, in order, and every batch directory with
\* report files gets its entry.
C12_BadFileContributesNothing ==
    /\ parse_pc = "batch" /\ xml_dirs[dir_idx].xml_dir
           => Sources(test_results) = CasesOfParseable(dir_idx, file_idx - 1)
    /\ \A b \in 1..Len(all_results.batch_results) :
           LET e == all_results.batch_results[b]
               d == DirOf(e.batch_name)
           IN  Sources(e.test_results) = CasesOfParseable(d, Len(xml_dirs[d].xml_files))
    /\ \A d \in 1..Len(xml_dirs) :
           d < dir_idx /\ xml_dirs[d].xml_dir
               => \E b \in 1..Len(all_results.batch_results) :
                      all_results.batch_results[b].batch_name = batch_name_of(xml_dirs[d])

\* A batch whose first file has results and whose second file is malformed
\* or has an unknown root has been analysed and keeps the first one's results.
C12_Witness ==
    \E b \in 1..Len(all_results.batch_results) :
        LET e == all_results.batch_results[b]
            fs == xml_dirs[DirOf(e.batch_name)].xml_files
        IN  /\ Len(fs) = 2
            /\ Parseable(fs[1])
            /\ ~fs[2].well_formed \/ fs[2].root = "html"
            /\ e.total_tests >= 1

\* The failures of the aggregate, in the order the ranking reads them, and
\* the first GroupLimit characters of their causes.
AllFailures ==
    Flatten([b \in 1..Len(all_results.batch_results) |->
                all_results.batch_results[b].failure_summary])
GroupOf(k) ==
    SubSeq(AllFailures[k].root_cause, 1, Min(GroupLimit, Len(AllFailures[k].root_cause)))
Groups == { GroupOf(k) : k \in 1..Len(AllFailures) }
Occurs(g) == Cardinality({ k \in 1..Len(AllFailures) : GroupOf(k) = g })
FirstAt(g) == CHOOSE k \in 1..Len(AllFailures) :
                  GroupOf(k) = g /\ \A j \in 1..(k - 1) : GroupOf(j) # g

\* C13: the ranked list groups the failures by the first 100 characters of
\* their cause, has at most 10 entries, is ordered by count descending with
\* ties in first-seen order, and leaves out no cause with a higher count
\* than one it holds.
C13_RankedCauses ==
    parse_pc \in { "saved", "reported", "crashed" } =>
        LET top == all_results.top_failure_causes
        IN  /\ Len(top) = Min(TopCauses, Cardinality(Groups))
            /\ \A i \in 1..Len(top) :
                   top[i].cause \in Groups /\ top[i].count = Occurs(top[i].cause)
            /\ \A i, j \in 1..Len(top) :
                   i < j => /\ top[i].cause # top[j].cause
                            /\ top[i].count >= top[j].count
                            /\ top[i].count = top[j].count
                                   => FirstAt(top[i].cause) < FirstAt(top[j].cause)
            /\ \A g \in Groups :
                   (\A i \in 1..Len(top) : top[i].cause # g)
                       => \A i \in 1..Len(top) : top[i].count >= Occurs(g)

\* More than 10 causes were seen, two failures whose causes differ only
\* after character 100 were counted as one cause, and a cause seen later
\* ranks above a cause seen earlier.
C13_Witness ==
    /\ parse_pc = "saved"
    /\ Cardinality(Groups) > TopCauses
    /\ \E j, k \in 1..Len(AllFailures) :
           AllFailures[j].root_cause # AllFailures[k].root_cause /\ GroupOf(j) = GroupOf(k)
    /\ \E i, j \in 1..Len(all_results.top_failure_causes) :
           /\ i < j
           /\ FirstAt(all_results.top_failure_causes[i].cause)
                  > FirstAt(all_results.top_failure_causes[j].cause)

Exact(rate, passed, total) ==
    IF total > 0
    THEN /\ 2 * (1000 * passed - rate * total) <= total
         /\ 2 * (rate * total - 1000 * passed) <= total
    ELSE rate = 0

\* C14: the overall and the per-batch pass rate is passed / total when
\* total > 0 and 0 when total = 0 (in tenths of a percent, to the nearest
\* tenth), and computing it never divides by zero.
C14_PassRate ==
    /\ parse_pc \in { "saved", "reported", "crashed" } =>
           /\ pass_rate(all_results.total_passed, all_results.total_tests)
                  # ZeroDivisionError
           /\ \A b \in 1..Len(all_results.batch_results) :
                  pass_rate(all_results.batch_results[b].passed_tests,
                            all_results.batch_results[b].total_tests) # ZeroDivisionError
    /\ report.written =>
           /\ Exact(report.overall_pass_rate, all_results.total_passed,
                    all_results.total_tests)
           /\ Len(report.csv_pass_rate) = Len(all_results.batch_results)
           /\ \A b \in 1..Len(all_results.batch_results) :
                  Exact(report.csv_pass_rate[b],
                        all_results.batch_results[b].passed_tests,
                        all_results.batch_results[b].total_tests)

\* A report was rendered with one batch of no tests at rate 0 and the
\* overall rate above 0.
C14_Witness ==
    /\ report.written
    /\ report.overall_pass_rate > 0
    /\ \E b \in 1..Len(all_results.batch_results) :
           /\ all_results.batch_results[b].total_tests = 0
           /\ report.csv_pass_rate[b] = 0

\* The failed and errored results of the b-th batch entry, in order: the
\* tests its failure summary lists.
FailingOf(b) ==
    SelectSeq(all_results.batch_results[b].test_results,
              LAMBDA t : t.status \in { "failed", "error" })

\* The failure or error element of the report that result t of the b-th
\* batch entry was read from.
MarkerOf(b, t) ==
    LET testcase == SourceCase(<<DirOf(all_results.batch_results[b].batch_name), t>>)
    IN  IF testcase.failure.present THEN testcase.failure ELSE testcase.error

\* C24: for a failed or errored test whose failure or error element has no
\* message attribute and whose text has a non-blank line that is not a
\* stack frame, the root cause in the batch's failure summary is the first
\* such line.
C24_NoMessageUsesDiagnosticText ==
    \A b \in 1..Len(all_results.batch_results) :
        \A k \in 1..Len(all_results.batch_results[b].failure_summary) :
            LET marker == MarkerOf(b, FailingOf(b)[k])
            IN  (/\ marker.message = None
                 /\ marker.text # <<None>>
                 /\ MeaningfulLines(marker.text) # <<>>)
                    => all_results.batch_results[b].failure_summary[k].root_cause
                           = Truncated(Head(MeaningfulLines(marker.text)))

\* The sum of field f over the per-batch entries.
RECURSIVE TotalOf(_, _)
TotalOf(entries, f) ==
    IF entries = <<>> THEN 0 ELSE Head(entries)[f] + TotalOf(Tail(entries), f)

\* C28: in every batch entry total_tests = passed + failed + error +
\* skipped and the failure summary has failed + error entries; each overall
\* count is the sum of that count over the batch entries and total_batches
\* is the number of batch entries.
C28_CountsAddUp ==
    /\ \A b \in 1..Len(all_results.batch_results) :
          LET e == all_results.batch_results[b]
          IN  /\ e.total_tests = e.passed_tests + e.failed_tests + e.error_tests
                                   + e.skipped_tests
              /\ e.total_tests = Len(e.test_results)
              /\ Len(e.failure_summary) = e.failed_tests + e.error_tests
    /\ all_results.total_batches = Len(all_results.batch_results)
    /\ all_results.total_tests = TotalOf(all_results.batch_results, "total_tests")
    /\ all_results.total_passed = TotalOf(all_results.batch_results, "passed_tests")
    /\ all_results.total_failed = TotalOf(all_results.batch_results, "failed_tests")
    /\ all_results.total_errors = TotalOf(all_results.batch_results, "error_tests")
    /\ all_results.total_skipped = TotalOf(all_results.batch_results, "skipped_tests")

\* C28 witness: the aggregate of two batch entries was saved, the first
\* with a failed or errored test and the second with a passed one.
C28_Witness ==
    /\ parse_pc = "saved"
    /\ Len(all_results.batch_results) = 2
    /\ all_results.total_failed + all_results.total_errors >= 1
    /\ all_results.total_passed >= 1
    /\ all_results.total_tests >= 2

\* C30: rendering the report never fails, whatever results file the
\* executor wrote, one of a run of zero batches included: the report
\* generator does not end on a division by zero.
C30_ReportRendersForZeroBatches == parse_pc # "crashed"

-----------------------------------------------------------------------------
(* Properties of the cleanup analyzer, checked under SpecClean *)

\* The name X of a unit named XTest, XUnitTest or XIntegrationTest.
WithoutSuffix(n) ==
    IF EndsWith(n, IntegrationTestWord)
    THEN SubSeq(n, 1, Len(n) - Len(IntegrationTestWord))
    ELSE IF EndsWith(n, UnitTestWord) THEN SubSeq(n, 1, Len(n) - Len(UnitTestWord))
    ELSE IF EndsWith(n, TestWord) THEN SubSeq(n, 1, Len(n) - Len(TestWord))
    ELSE n

\* The group of name_groups that holds the unit of row i.
GroupHolding(i) ==
    { g \in 1..Len(name_groups) :
        \E t \in 1..Len(name_groups[g].tests) :
            name_groups[g].tests[t].class_name = inventory[i].class_name }

\* C20: for every name X the units XTest, XUnitTest and XIntegrationTest of
\* the inventory get the same base name and are in the same duplicate group.
C20_SuffixesShareABaseName ==
    \A i, j \in 1..(row_idx - 1) :
        WithoutSuffix(inventory[i].class_name) = WithoutSuffix(inventory[j].class_name)
            => GroupHolding(i) = GroupHolding(j)

-----------------------------------------------------------------------------
(* Specifications: one per script; a script that is not running is off *)

ExecOff ==
    /\ batch_manifest = <<>>
    /\ argv = ""
    /\ batches = <<>>
    /\ idx = 0
    /\ pc = "off"
    /\ inflight = 0
    /\ record = NoRecord
    /\ results = <<>>
    /\ events = <<>>
    /\ batch_files = {}
    /\ overall = NoOverall
    /\ delays = 0
    /\ build_dir = 0
    /\ artifacts = {}

PlanOff ==
    /\ test_files = <<>>
    /\ config_edit = [rule |-> 0, field |-> "none", size |-> 0, bucket |-> ""]
    /\ rule_idx = 0
    /\ manifest = <<>>
    /\ plan_pc = "off"

RemOff ==
    /\ tree = EmptyTree
    /\ test_dir = FALSE
    /\ candidates_csv = FALSE
    /\ candidates = <<>>
    /\ cand_idx = 0
    /\ file_path = NoPath
    /\ dependencies = {}
    /\ backup_dir = NoBackup
    /\ removed_files = <<>>
    /\ skipped_files = <<>>
    /\ missing_files = <<>>
    /\ rm_log = <<>>
    /\ rm_pc = "off"

ParseOff ==
    /\ xml_dirs = <<>>
    /\ dir_idx = 0
    /\ file_idx = 0
    /\ test_results = <<>>
    /\ all_results = NoResults
    /\ parse_pc = "off"
    /\ report = NoReport

CleanOff ==
    /\ inventory = <<>>
    /\ row_idx = 0
    /\ name_groups = <<>>
    /\ potential_duplicates = <<>>
    /\ unit_vs_integration_duplicates = <<>>
    /\ deletion_candidates = <<>>
    /\ clean_pc = "off"

InitExec == ExecInit /\ PlanOff /\ RemOff /\ ParseOff /\ CleanOff
SpecExec == InitExec /\ [][ExecNext]_vars

InitPlan == PlanInit /\ ExecOff /\ RemOff /\ ParseOff /\ CleanOff
SpecPlan == InitPlan /\ [][PlanNext]_vars

InitRemove == RemInit /\ ExecOff /\ PlanOff /\ ParseOff /\ CleanOff
SpecRemove == InitRemove /\ [][RemNext]_vars

InitParse == ParseInit /\ ExecOff /\ PlanOff /\ RemOff /\ CleanOff
SpecParse == InitParse /\ [][ParseNext]_vars

InitClean == CleanInit /\ ExecOff /\ PlanOff /\ RemOff /\ ParseOff
SpecClean == InitClean /\ [][CleanNext]_vars

Init == InitExec \/ InitPlan \/ InitRemove \/ InitParse \/ InitClean
Next == ExecNext \/ PlanNext \/ RemNext \/ ParseNext \/ CleanNext
Spec == Init /\ [][Next]_vars

=============================================================================
